---- MODULE Spec2Model ----
(***************************************************************************)
(* BackLens: the graph store as the query engine reads it (tables nodes    *)
(* and edges in rowid order) and the query operations of GraphAPIImpl with *)
(* the traversal algorithms they delegate to; the build of a graph from    *)
(* source (parseProject, buildGraph); and the database file saveGraph      *)
(* writes (db); of the VS Code extension, the GraphService that holds the  *)
(* open project (service) and the AnalysisWorker that runs the analysis in *)
(* a child process (worker).                                               *)
(***************************************************************************)
EXTENDS Integers, Sequences, FiniteSets, TLC

VARIABLES nodes, edges, call, ret, run, build, db, service, worker

vars == <<nodes, edges, call, ret, run, build, db, service, worker>>

\* what a query leaves alone
unqueried == <<nodes, edges, run, build, db, service, worker>>

\* what a step of a running traversal leaves alone
untraversed == <<nodes, edges, call, ret, build, db, service, worker>>

(***************************************************************************)
(* Bounds of the explored inputs.                                          *)
(***************************************************************************)
\* largest number of rows of the edges table
MaxEdges == 4
\* explicit maxDepth / depthLimit arguments range over 0..MaxDepthArg
MaxDepthArg == 2
\* largest number of call expressions in a source
MaxCalls == 2
\* largest number of saves of one graph
MaxSaves == 2
\* largest number of upserts outside a save
MaxUpserts == 2
\* largest number of edge rows under the filtered queries
MaxFilterEdges == 3
\* largest number of edge rows under the step-by-step traversals
MaxRunEdges == 3
\* explicit maxPaths arguments range over 1..MaxPathsArg
MaxPathsArg == 1
\* explicit top arguments range over 1..MaxTop
MaxTop == 2
\* calls of GraphService.loadProject
MaxLoads == 3
\* plain rows between the first and the last rows of a searched nodes table
MaxFillers == 19

(***************************************************************************)
(* Defaults written in the code.                                           *)
(***************************************************************************)
DefaultFlatDepth == 200
DefaultTreeDepth == 50
DefaultDepthLimit == 20
DefaultMaxPaths == 1000
DefaultTop == 20

\* a JavaScript `undefined` for a numeric option
Undefined == 0 - 1
\* `opts.x ?? d`
OrDefault(x, d) == IF x = Undefined THEN d ELSE x

(***************************************************************************)
(* The stored graph.  A nodes row is [id, type]; an edges row is           *)
(* [from, to, type].  Both tables are sequences in rowid order.            *)
(***************************************************************************)
NodeIds == {"a", "b", "c", "f"}
\* an id no nodes row has
MissingId == "zz"
QueryIds == NodeIds \cup {MissingId}

\* the ids in ascending string order
IdOrder == <<"a", "b", "c", "f", "zz">>
IdRank(id) == CHOOSE i \in 1..Len(IdOrder) : IdOrder[i] = id

CallKinds == {"call", "method_call"}

NodeRows == <<[id |-> "f", type |-> "file"], [id |-> "a", type |-> "function"],
              [id |-> "b", type |-> "method"], [id |-> "c", type |-> "function"]>>

Edge(f, t, k) == [from |-> f, to |-> t, type |-> k]

\* the edges of a small program: file f contains function a and calls a and c
\* at top level; a calls itself, c and the method b; c calls a and b; b calls a
EdgeUniverse ==
  {Edge("f", "a", "contains"), Edge("f", "a", "call"), Edge("f", "c", "call"),
   Edge("a", "a", "call"), Edge("a", "c", "call"), Edge("c", "a", "call"),
   Edge("b", "a", "call"), Edge("a", "b", "method_call"), Edge("c", "b", "method_call")}

\* edge tables of k rows: the UNIQUE(from_id, to_id, type) constraint holds
EdgeTables(U, k) ==
  {s \in [1..k -> U] : \A i, j \in 1..k : i # j => s[i] # s[j]}

StoredEdgeTables == UNION {EdgeTables(EdgeUniverse, k) : k \in 0..MaxEdges}

\* with a second edge from a to b, of the other call kind
ParallelCallEdges == EdgeUniverse \cup {Edge("a", "b", "call")}

\* the edge tables the filtered queries run over
FilterEdgeTables == UNION {EdgeTables(ParallelCallEdges, k) : k \in 0..MaxFilterEdges}

\* the edges among the functions and the method: a self-loop, the 2-cycles
\* a-c and a-b, the 3-cycle a-c-b
CycleEdges == {r \in EdgeUniverse : r.from # "f"}

\* the edge tables the step-by-step traversals run over
RunEdgeTables == UNION {EdgeTables(CycleEdges, k) : k \in 0..MaxRunEdges}

(***************************************************************************)
(* Sequence helpers.                                                       *)
(***************************************************************************)
Range(s) == {s[i] : i \in 1..Len(s)}
Includes(s, x) == \E i \in 1..Len(s) : s[i] = x
\* Array.prototype.slice(0, n)
Slice(s, n) == SubSeq(s, 1, IF n < Len(s) THEN n ELSE Len(s))

RECURSIVE MapIds(_)
\* rows.map(r => r.id)
MapIds(rows) ==
  IF rows = <<>> THEN <<>> ELSE <<Head(rows).id>> \o MapIds(Tail(rows))

(***************************************************************************)
(* NodeStore.get: the row with this id, or null.                           *)
(***************************************************************************)
Null == [id |-> "null", type |-> "null"]

NodeStoreGet(N, id) ==
  IF \E i \in 1..Len(N) : N[i].id = id
  THEN N[CHOOSE i \in 1..Len(N) : N[i].id = id]
  ELSE Null

(***************************************************************************)
(* filterUtils: query options carry includeTypes / excludeTypes, each      *)
(* either absent or a list of node types.                                  *)
(***************************************************************************)
NoTypes == [given |-> FALSE, types |-> {}]
Types(S) == [given |-> TRUE, types |-> S]

\* a filter that does not look at excludeTypes
FilterNodeIncludeOnly(node, opts) ==
  IF node = Null THEN Null
  ELSE IF opts.includeTypes.given /\ node.type \notin opts.includeTypes.types THEN Null
  ELSE node

FilterNode(node, opts) ==
  IF node = Null THEN Null
  ELSE IF opts.excludeTypes.given /\ node.type \in opts.excludeTypes.types THEN Null
  ELSE IF opts.includeTypes.given /\ node.type \notin opts.includeTypes.types THEN Null
  ELSE node

RECURSIVE FilterNodes(_, _)
FilterNodes(ns, opts) ==
  IF ns = <<>> THEN <<>>
  ELSE LET n == FilterNode(Head(ns), opts)
       IN (IF n = Null THEN <<>> ELSE <<n>>) \o FilterNodes(Tail(ns), opts)

(***************************************************************************)
(* createTraversalHelpers: the rows of edges into / out of a node, of      *)
(* every edge type, in rowid order.                                        *)
(***************************************************************************)
ImmediateCallers(E, nodeId) == SelectSeq(E, LAMBDA r : r.to = nodeId)
ImmediateCallees(E, nodeId) == SelectSeq(E, LAMBDA r : r.from = nodeId)

\* the neighbour a row leads to: from_id going backwards, to_id going forwards
Neighbour(row, dir) == IF dir = "callers" THEN row.from ELSE row.to
Immediate(E, nodeId, dir) ==
  IF dir = "callers" THEN ImmediateCallers(E, nodeId) ELSE ImmediateCallees(E, nodeId)

(***************************************************************************)
(* transitiveCallersFlat / transitiveCalleesFlat: BFS.  st is the loop     *)
(* state [queue, visited, result]; a queue entry is [id, depth].           *)
(***************************************************************************)
RECURSIVE FlatScan(_, _, _, _)
\* the for loop over the rows of one dequeued node
FlatScan(rows, dir, depth, st) ==
  IF rows = <<>> THEN st
  ELSE LET p == Neighbour(Head(rows), dir)
       IN IF p \notin st.visited
          THEN FlatScan(Tail(rows), dir, depth,
                        [queue |-> Append(st.queue, [id |-> p, depth |-> depth + 1]),
                         visited |-> st.visited \cup {p},
                         result |-> Append(st.result, p)])
          ELSE FlatScan(Tail(rows), dir, depth, st)

\* a loop that reads the head of the queue and leaves it there
DequeueKept(queue) == queue

\* the queue after queue.shift()
Dequeue(queue) == Tail(queue)

\* one iteration of the while loop over a non-empty queue
FlatIteration(E, dir, maxDepth, st) ==
  LET head == Head(st.queue)
      rest == [st EXCEPT !.queue = Dequeue(st.queue)]
  IN IF head.depth >= maxDepth THEN rest
     ELSE FlatScan(Immediate(E, head.id, dir), dir, head.depth, rest)

RECURSIVE FlatLoop(_, _, _, _)
\* the while loop
FlatLoop(E, dir, maxDepth, st) ==
  IF st.queue = <<>> THEN st.result
  ELSE FlatLoop(E, dir, maxDepth, FlatIteration(E, dir, maxDepth, st))

TransitiveFlatAlg(E, dir, startId, maxDepth) ==
  FlatLoop(E, dir, maxDepth,
           [queue |-> <<[id |-> startId, depth |-> 0]>>,
            visited |-> {startId},
            result |-> <<>>])

\* GraphAPIImpl.buildFlatResult: the raw ids of the rows that pass the filter
RECURSIVE GetAll(_, _)
GetAll(N, ids) ==
  IF ids = <<>> THEN <<>> ELSE <<NodeStoreGet(N, Head(ids))>> \o GetAll(N, Tail(ids))

BuildFlatResult(N, ids, opts) == MapIds(FilterNodes(GetAll(N, ids), opts))

\* GraphAPIImpl.transitiveCallersFlat / transitiveCalleesFlat
TransitiveFlat(N, E, dir, nodeId, opts) ==
  BuildFlatResult(N, TransitiveFlatAlg(E, dir, nodeId, OrDefault(opts.maxDepth, DefaultFlatDepth)), opts)

(***************************************************************************)
(* transitiveCallersTree / transitiveCalleesTree: DFS with one visited set *)
(* shared by the whole traversal.  A raw tree is [id, children].           *)
(***************************************************************************)
RawLeaf(id) == [id |-> id, children |-> <<>>]

\* visited.add(pid)
MarkVisited(visited, pid) == visited \cup {pid}

\* a build that drops an already visited neighbour
PushVisitedPruned(children, pid) == children

\* children.push({ id: pid, children: [] }) for an already visited neighbour
PushVisited(children, pid) == Append(children, RawLeaf(pid))

\* `depth > maxDepth` at the head of build
BeyondDepth(depth, maxDepth) == depth > maxDepth

RECURSIVE TreeBuild(_, _, _, _, _, _)
RECURSIVE TreeChildren(_, _, _, _, _, _, _)
\* the for loop of build: [children, visited] after the rows
TreeChildren(E, dir, rows, depth, maxDepth, visited, children) ==
  IF rows = <<>> THEN [children |-> children, visited |-> visited]
  ELSE LET pid == Neighbour(Head(rows), dir)
       IN IF pid \in visited
          THEN TreeChildren(E, dir, Tail(rows), depth, maxDepth, visited,
                            PushVisited(children, pid))
          ELSE LET sub == TreeBuild(E, dir, pid, depth + 1, maxDepth,
                                    MarkVisited(visited, pid))
               IN TreeChildren(E, dir, Tail(rows), depth, maxDepth, sub.visited,
                               Append(children, sub.tree))

\* build(nodeId, depth): [tree, visited]
TreeBuild(E, dir, nodeId, depth, maxDepth, visited) ==
  IF BeyondDepth(depth, maxDepth)
  THEN [tree |-> RawLeaf(nodeId), visited |-> visited]
  ELSE LET r == TreeChildren(E, dir, Immediate(E, nodeId, dir), depth, maxDepth,
                             visited, <<>>)
       IN [tree |-> [id |-> nodeId, children |-> r.children], visited |-> r.visited]

TransitiveTreeAlg(E, dir, startId, maxDepth) ==
  TreeBuild(E, dir, startId, 0, maxDepth, {startId}).tree

(***************************************************************************)
(* GraphAPIImpl.buildFilteredTree: a result tree node is                   *)
(* [nodeId, children]; convert returns null for a filtered-out node.       *)
(***************************************************************************)
NullTree == [nodeId |-> "null", children |-> <<>>]

\* a conversion that never cuts at maxDepth
AtDepthLimitNever(depth, opts) == FALSE

\* `depth >= (opts.maxDepth ?? Infinity)`
AtDepthLimit(depth, opts) == opts.maxDepth # Undefined /\ depth >= opts.maxDepth

RECURSIVE Convert(_, _, _, _)
RECURSIVE ConvertAll(_, _, _, _)
\* (n.children || []).map(c => convert(c, depth + 1)).filter(notNull)
ConvertAll(N, cs, depth, opts) ==
  IF cs = <<>> THEN <<>>
  ELSE LET c == Convert(N, Head(cs), depth, opts)
       IN (IF c = NullTree THEN <<>> ELSE <<c>>) \o ConvertAll(N, Tail(cs), depth, opts)

Convert(N, n, depth, opts) ==
  IF FilterNode(NodeStoreGet(N, n.id), opts) = Null THEN NullTree
  ELSE IF AtDepthLimit(depth, opts) THEN [nodeId |-> n.id, children |-> <<>>]
  ELSE [nodeId |-> n.id, children |-> ConvertAll(N, n.children, depth + 1, opts)]

BuildFilteredTree(N, treeRoot, opts) ==
  LET rootNode == Convert(N, treeRoot, 0, opts)
  IN IF rootNode = NullTree THEN [nodeId |-> treeRoot.id, children |-> <<>>]
     ELSE rootNode

\* GraphAPIImpl.transitiveCallersTree / transitiveCalleesTree
TransitiveTree(N, E, dir, nodeId, opts) ==
  BuildFilteredTree(N, TransitiveTreeAlg(E, dir, nodeId, OrDefault(opts.maxDepth, DefaultTreeDepth)), opts)

(***************************************************************************)
(* allPathsBetween: DFS over outgoing rows; paths accumulates the result.  *)
(***************************************************************************)
\* a dfs without the length test
PathTooLongNever(path, depthLimit) == FALSE

\* `path.length > depthLimit`
PathTooLong(path, depthLimit) == Len(path) > depthLimit

\* `path.includes(nid)`
OnPath(path, nid) == Includes(path, nid)

RECURSIVE Dfs(_, _, _, _, _, _)
RECURSIVE DfsRows(_, _, _, _, _, _)
DfsRows(E, targetId, depthLimit, rows, path, paths) ==
  IF rows = <<>> THEN paths
  ELSE LET nid == Head(rows).to
       IN IF OnPath(path, nid)
          THEN DfsRows(E, targetId, depthLimit, Tail(rows), path, paths)
          ELSE DfsRows(E, targetId, depthLimit, Tail(rows), path,
                       Dfs(E, targetId, depthLimit, nid, Append(path, nid), paths))

Dfs(E, targetId, depthLimit, curr, path, paths) ==
  IF PathTooLong(path, depthLimit) THEN paths
  ELSE IF curr = targetId THEN Append(paths, path)
  ELSE DfsRows(E, targetId, depthLimit, ImmediateCallees(E, curr), path, paths)

AllPathsBetween(E, startId, targetId, depthLimit) ==
  Dfs(E, targetId, depthLimit, startId, <<startId>>, <<>>)

\* GraphAPIImpl.allCallChains: the rawPath of every returned chain
AllCallChains(E, startId, targetId, opts) ==
  Slice(AllPathsBetween(E, startId, targetId, OrDefault(opts.depthLimit, DefaultDepthLimit)),
        OrDefault(opts.maxPaths, DefaultMaxPaths))

(***************************************************************************)
(* Direct neighbours and single nodes.                                     *)
(***************************************************************************)
RECURSIVE MapField(_, _)
\* rows.map(r => r.from_id) / rows.map(r => r.to_id)
MapField(rows, dir) ==
  IF rows = <<>> THEN <<>>
  ELSE <<Neighbour(Head(rows), dir)>> \o MapField(Tail(rows), dir)

\* WHERE to_id = ? AND (type = 'call' OR type = 'method_call')
GetCallers(N, E, nodeId, opts) ==
  BuildFlatResult(N, MapField(SelectSeq(E, LAMBDA r : r.to = nodeId /\ r.type \in CallKinds),
                              "callers"), opts)

GetCallees(N, E, nodeId, opts) ==
  BuildFlatResult(N, MapField(SelectSeq(E, LAMBDA r : r.from = nodeId /\ r.type \in CallKinds),
                              "callees"), opts)

\* edges e JOIN nodes n ON n.id = e.to_id WHERE e.from_id = ? AND e.type = 'contains'
GetFunctionsInFile(N, E, nodeId, opts) ==
  BuildFlatResult(N, MapField(SelectSeq(E, LAMBDA r : r.from = nodeId /\ r.type = "contains"
                                                      /\ NodeStoreGet(N, r.to) # Null),
                              "callees"), opts)

GetNode(N, id) == NodeStoreGet(N, id)

(***************************************************************************)
(* searchNodes.  Here a nodes row is [id, type, label, meta] and an edges  *)
(* row [from, to, type, meta]; a text column holds a string, kept as the   *)
(* sequence of its characters, or NULL; the meta column holds a JSON       *)
(* object or NULL.  The queries hold no % and no _.                        *)
(***************************************************************************)
\* .slice(0, 20) in GraphAPIImpl, .slice(0, 100) in createGraphAPI
ImplSearchCap == 20
FactorySearchCap == 100

NullText == [null |-> TRUE, chars |-> <<>>]
Text(chars) == [null |-> FALSE, chars |-> chars]

LowerChar(c) ==
  CASE c = "J" -> "j"
    [] c = "N" -> "n"
    [] OTHER -> c

\* s.toLowerCase()
ToLowerCase(chars) == [i \in 1..Len(chars) |-> LowerChar(chars[i])]

\* s.includes(sub)
TextIncludes(chars, sub) ==
  \E i \in 0..(Len(chars) - Len(sub)) : SubSeq(chars, i + 1, i + Len(sub)) = sub

\* column LIKE '%q%': NULL never matches; letters match in either case
Like(text, q) == ~text.null /\ TextIncludes(ToLowerCase(text.chars), ToLowerCase(q))

\* typeof x === 'string' && x.toLowerCase().includes(lowerQ)
StringMatches(text, lowerQ) == ~text.null /\ TextIncludes(ToLowerCase(text.chars), lowerQ)

\* the node ids in rowid order, and their characters
SearchIds ==
  <<"n01", "n02", "n03", "n04", "n05", "n06", "n07", "n08", "n09", "n10",
    "n11", "n12", "n13", "n14", "n15", "n16", "n17", "n18", "n19", "n20",
    "n21", "n22", "n23", "n24", "n25", "n26">>
Digits == <<"0", "1", "2", "3", "4", "5", "6", "7", "8", "9">>
IdText(id) ==
  LET i == CHOOSE k \in 1..Len(SearchIds) : SearchIds[k] = id
  IN Text(<<"n", Digits[(i \div 10) + 1], Digits[(i % 10) + 1]>>)

\* WHERE id LIKE ? OR label LIKE ?
IdOrLabelLike(row, q) == Like(IdText(row.id), q) \/ Like(row.label, q)

\* acc.set(n.id, n): a new key goes last, a known key keeps its place
AccSetAppending(acc, n) == Append(acc, n)

AccSet(acc, n) ==
  IF \E i \in 1..Len(acc) : acc[i].id = n.id
  THEN [acc EXCEPT ![CHOOSE i \in 1..Len(acc) : acc[i].id = n.id] = n]
  ELSE Append(acc, n)

\* stage 1: the rows whose id or label is LIKE the query
SearchByIdOrLabel(N, q) == SelectSeq(N, LAMBDA r : IdOrLabelLike(r, q))

\* stage 2: meta.moduleName or meta.name holds the query
MetaMatches(row, lowerQ) ==
  /\ ~row.meta.null
  /\ \/ StringMatches(row.meta.moduleName, lowerQ)
     \/ StringMatches(row.meta.name, lowerQ)

RECURSIVE SearchByMeta(_, _, _)
SearchByMeta(rows, lowerQ, acc) ==
  IF rows = <<>> THEN acc
  ELSE SearchByMeta(Tail(rows), lowerQ,
                    IF MetaMatches(Head(rows), lowerQ) THEN AccSet(acc, Head(rows)) ELSE acc)

\* stage 3: the call edges whose meta.receiver or meta.moduleName holds the query
EdgeMatches(e, lowerQ) ==
  /\ ~e.meta.null
  /\ \/ StringMatches(e.meta.receiver, lowerQ)
     \/ StringMatches(e.meta.moduleName, lowerQ)

RECURSIVE SearchByEdges(_, _, _, _)
SearchByEdges(N, edgeRows, lowerQ, acc) ==
  IF edgeRows = <<>> THEN acc
  ELSE LET node == NodeStoreGet(N, Head(edgeRows).to)
       IN SearchByEdges(N, Tail(edgeRows), lowerQ,
                        IF EdgeMatches(Head(edgeRows), lowerQ) /\ node # Null
                        THEN AccSet(acc, node) ELSE acc)

\* acc after the three stages
SearchAccumulate(N, E, q) ==
  SearchByEdges(N, SelectSeq(E, LAMBDA e : e.type \in CallKinds), ToLowerCase(q),
                SearchByMeta(N, ToLowerCase(q), SearchByIdOrLabel(N, q)))

\* options ? filterNodes(results, options) : results
SearchNodes(N, E, q, cap, hasOptions, opts) ==
  LET results == Slice(SearchAccumulate(N, E, q), cap)
  IN IF hasOptions THEN FilterNodes(results, opts) ELSE results

(***************************************************************************)
(* computeHotspots: two GROUP BY queries over every edge row, ordered by   *)
(* count descending and cut by LIMIT.  SQL leaves the order of groups with *)
(* equal counts open, so each query has a set of possible results.         *)
(***************************************************************************)
Min(x, y) == IF x < y THEN x ELSE y

\* SELECT to_id as node, COUNT(*) as cnt FROM edges GROUP BY to_id
IncomingGroups(E) ==
  {[node |-> n, cnt |-> Len(SelectSeq(E, LAMBDA r : r.to = n))] : n \in {r.to : r \in Range(E)}}

\* SELECT from_id as node, COUNT(*) as cnt FROM edges GROUP BY from_id
OutgoingGroups(E) ==
  {[node |-> n, cnt |-> Len(SelectSeq(E, LAMBDA r : r.from = n))] : n \in {r.from : r \in Range(E)}}

\* ORDER BY cnt DESC LIMIT top: every row sequence the query may return
OrderByCntLimit(groups, top) ==
  LET k == Min(top, Cardinality(groups))
  IN {s \in [1..k -> groups] :
        /\ \A i, j \in 1..k : i < j => s[i] # s[j] /\ s[i].cnt >= s[j].cnt
        /\ \A g \in groups \ Range(s) : \A i \in 1..k : s[i].cnt >= g.cnt}

ComputeHotspots(E, top) ==
  {[incoming |-> inc, outgoing |-> out] :
     inc \in OrderByCntLimit(IncomingGroups(E), top),
     out \in OrderByCntLimit(OutgoingGroups(E), top)}

(***************************************************************************)
(* GraphAPIImpl.hotspots over one result of computeHotspots.               *)
(***************************************************************************)
\* incomingMap[key] ?? 0
CountOf(rows, key) ==
  IF \E i \in 1..Len(rows) : rows[i].node = key
  THEN rows[CHOOSE i \in 1..Len(rows) : rows[i].node = key].cnt
  ELSE 0

RECURSIVE Dedupe(_, _)
\* new Set([...]) keeps the first occurrence of each key, in insertion order
Dedupe(keys, seen) ==
  IF keys = <<>> THEN <<>>
  ELSE IF Head(keys) \in seen THEN Dedupe(Tail(keys), seen)
  ELSE <<Head(keys)>> \o Dedupe(Tail(keys), seen \cup {Head(keys)})

RECURSIVE MapNode(_)
MapNode(rows) == IF rows = <<>> THEN <<>> ELSE <<Head(rows).node>> \o MapNode(Tail(rows))

HotspotKeys(raw) == Dedupe(MapNode(raw.incoming) \o MapNode(raw.outgoing), {})

HotspotEntry(raw, key) ==
  LET inCount == CountOf(raw.incoming, key)
      outCount == CountOf(raw.outgoing, key)
  IN [nodeId |-> key, in |-> inCount, out |-> outCount, score |-> inCount * outCount]

RECURSIVE HotspotEntries(_, _, _, _)
\* the loop over keys: an entry for every key whose node passes the filter
HotspotEntries(N, raw, keys, opts) ==
  IF keys = <<>> THEN <<>>
  ELSE (IF FilterNode(NodeStoreGet(N, Head(keys)), opts) = Null THEN <<>>
        ELSE <<HotspotEntry(raw, Head(keys))>>)
       \o HotspotEntries(N, raw, Tail(keys), opts)

\* the comparator (a, b) => b.score - a.score puts a before b when it is negative
ScoreBefore(a, b) == b.score - a.score < 0

RECURSIVE InsertSorted(_, _)
\* e goes after every entry the comparator does not put behind it (stable)
InsertSorted(sorted, e) ==
  IF sorted = <<>> THEN <<e>>
  ELSE IF ScoreBefore(e, Head(sorted)) THEN <<e>> \o sorted
  ELSE <<Head(sorted)>> \o InsertSorted(Tail(sorted), e)

RECURSIVE SortEntries(_, _)
\* Array.prototype.sort, stable
SortEntries(arr, sorted) ==
  IF arr = <<>> THEN sorted ELSE SortEntries(Tail(arr), InsertSorted(sorted, Head(arr)))

Hotspots(N, raw, opts) ==
  Slice(SortEntries(HotspotEntries(N, raw, HotspotKeys(raw), opts), <<>>),
        OrDefault(opts.top, DefaultTop))

(***************************************************************************)
(* Query options offered to the operations.                                *)
(***************************************************************************)
DepthArgs == (0..MaxDepthArg) \cup {Undefined}
PathsArgs == (1..MaxPathsArg) \cup {Undefined}
TopArgs == (1..MaxTop) \cup {Undefined}
NoFilterArg == [includeTypes |-> NoTypes, excludeTypes |-> NoTypes]
FilterArgs == {NoFilterArg,
               [includeTypes |-> NoTypes, excludeTypes |-> Types({"method"})]}

\* filters with includeTypes alone, and with a type both included and excluded
TypeFilterArgs ==
  FilterArgs \cup
  {[includeTypes |-> Types({"function"}), excludeTypes |-> NoTypes],
   [includeTypes |-> Types({"function", "method"}), excludeTypes |-> Types({"method"})]}

Opts(flt, maxDepth, depthLimit, maxPaths, top) ==
  [includeTypes |-> flt.includeTypes, excludeTypes |-> flt.excludeTypes,
   maxDepth |-> maxDepth, depthLimit |-> depthLimit, maxPaths |-> maxPaths, top |-> top]

NoFilter(opts) == ~opts.includeTypes.given /\ ~opts.excludeTypes.given

Idle == [op |-> "none", id |-> MissingId, target |-> MissingId,
         opts |-> Opts(NoFilterArg, Undefined, Undefined, Undefined, Undefined)]

Request(op, id, target, opts) == [op |-> op, id |-> id, target |-> target, opts |-> opts]

(***************************************************************************)
(* The build.  parseProject reads the source files into an IR and          *)
(* buildGraph turns the IR into a graph.  The source is one file, m.js,    *)
(* that imports jwt from "jsonwebtoken" and bc from "bcrypt", holds        *)
(* `const k = new K()`, may declare the function g and the class K (with   *)
(* the method run and a method under a string-literal key), holds a class  *)
(* expression with the method m and an anonymous function expression, and  *)
(* makes a sequence of calls, all of them in one enclosing function or at  *)
(* top level.  Source positions and paths are left out of the records and  *)
(* of the metadata.                                                        *)
(***************************************************************************)
\* a field that is undefined or null
Absent == "absent"

SourceFile == "m.js"
\* `file:${file}`
FileIdOf(file) == IF file = SourceFile THEN "file:m.js" ELSE "file:unknown"
\* `${normalizeFile(filePath, rootBase)}:TOPLEVEL`
TopLevelId == "m.js:TOPLEVEL"
\* the node id of function g and of the function expression
GId == "m.js:1:0-1:40"
CallbackId == "m.js:2:8-2:30"
\* `class:${file}:${className}` and `class:${file}:${className}.${methodName}`
ClassId == "class:m.js:K"
MethodId == "class:m.js:K.run"
\* the ids derived for a class method that was not recorded
KeyedMethodId == "class:m.js:K.anonymous"
ExprMethodId == "class:m.js:AnonymousClass.m"

Declarations == {"g", "K"}
SourceLines == {"1", "2"}
LineRank(line) == IF line = "1" THEN 1 ELSE 2

\* `placeholder::${file}::${calleeName ?? "anonymous"}::${line}`
PlaceholderTable ==
  {[id |-> "placeholder::m.js::g::1", callee |-> "g", line |-> "1"],
   [id |-> "placeholder::m.js::g::2", callee |-> "g", line |-> "2"],
   [id |-> "placeholder::m.js::run::1", callee |-> "run", line |-> "1"],
   [id |-> "placeholder::m.js::run::2", callee |-> "run", line |-> "2"],
   [id |-> "placeholder::m.js::sign::1", callee |-> "sign", line |-> "1"],
   [id |-> "placeholder::m.js::sign::2", callee |-> "sign", line |-> "2"],
   [id |-> "placeholder::m.js::anonymous::1", callee |-> "anonymous", line |-> "1"],
   [id |-> "placeholder::m.js::anonymous::2", callee |-> "anonymous", line |-> "2"]}

PlaceholderIdOf(calleeName, line) ==
  (CHOOSE r \in PlaceholderTable :
     r.callee = (IF calleeName = Absent THEN "anonymous" ELSE calleeName) /\ r.line = line).id

\* id.split("::")
Parts(id) ==
  IF \E r \in PlaceholderTable : r.id = id
  THEN LET r == CHOOSE x \in PlaceholderTable : x.id = id
       IN <<"placeholder", SourceFile, r.callee, r.line>>
  ELSE <<id>>

\* the callee expressions: g(), sign(), k.run(), jwt.sign(), bc.sign(),
\* x().run() (the object is not an identifier) and x[e]() (the property is not)
CallForms ==
  {[calleeName |-> "g", receiver |-> Absent, method |-> Absent, type |-> "call"],
   [calleeName |-> "sign", receiver |-> Absent, method |-> Absent, type |-> "call"],
   [calleeName |-> "run", receiver |-> "k", method |-> "run", type |-> "method_call"],
   [calleeName |-> "sign", receiver |-> "jwt", method |-> "sign", type |-> "method_call"],
   [calleeName |-> "sign", receiver |-> "bc", method |-> "sign", type |-> "method_call"],
   [calleeName |-> "run", receiver |-> Absent, method |-> "run", type |-> "method_call"],
   [calleeName |-> Absent, receiver |-> "x", method |-> Absent, type |-> "method_call"]}

\* where the call expressions stand: at top level, in g, in K.run, in the method
\* of K under a string-literal key, in the method of the class expression, in
\* the function expression
Contexts(decls) ==
  {"top", "expr.m", "callback"}
    \cup (IF "g" \in decls THEN {"g"} ELSE {})
    \cup (IF "K" \in decls THEN {"K.run", "K.keyed"} ELSE {})

CallSites == [form : CallForms, line : SourceLines]

\* the call expressions of a source in traversal order
CallSequences(n) ==
  {cs \in [1..n -> CallSites] :
     \A i \in 1..(n - 1) : LineRank(cs[i].line) <= LineRank(cs[i + 1].line)}

Sources ==
  UNION {[decls : {d}, ctx : Contexts(d), calls : UNION {CallSequences(n) : n \in 0..MaxCalls}]
         : d \in SUBSET Declarations}

\* imports: local name -> source; instanceMapping: variable -> class name
Imports == [local \in {"jwt", "bc"} |-> IF local = "jwt" THEN "jsonwebtoken" ELSE "bcrypt"]
InstanceMapping == [var \in {"k"} |-> "K"]

(***************************************************************************)
(* parseFileDetailed: pass 1.                                              *)
(***************************************************************************)
FunctionRecord(id, name) == [id |-> id, name |-> name, file |-> SourceFile]

\* the enclosing function of a call: the id recorded for it, or the one derived
CallerOf(ctx) ==
  CASE ctx = "top" -> TopLevelId
    [] ctx = "g" -> GId
    [] ctx = "K.run" -> MethodId
    [] ctx = "K.keyed" -> KeyedMethodId
    [] ctx = "expr.m" -> ExprMethodId
    [] ctx = "callback" -> CallbackId

\* calls.push({ from, to: pl, type, calleeName, receiver, method, resolved: false })
ExtractCall(ctx, site) ==
  [from |-> CallerOf(ctx),
   to |-> PlaceholderIdOf(site.form.calleeName, site.line),
   type |-> site.form.type,
   calleeName |-> site.form.calleeName,
   receiver |-> site.form.receiver,
   method |-> site.form.method,
   resolved |-> "false",
   external |-> Absent,
   moduleName |-> Absent]

RECURSIVE ExtractCalls(_, _)
ExtractCalls(ctx, sites) ==
  IF sites = <<>> THEN <<>>
  ELSE <<ExtractCall(ctx, Head(sites))>> \o ExtractCalls(ctx, Tail(sites))

\* recordFunction for the declaration of g; a function expression is pushed
\* when the first call inside it is met
ExtractFunctions(source) ==
  (IF "g" \in source.decls THEN <<FunctionRecord(GId, "g")>> ELSE <<>>)
    \o (IF source.ctx = "callback" /\ source.calls # <<>>
        THEN <<FunctionRecord(CallbackId, Absent)>> ELSE <<>>)

\* recordClass
ExtractClasses(source) ==
  IF "K" \in source.decls THEN <<[id |-> ClassId, name |-> "K", file |-> SourceFile]>> ELSE <<>>

\* recordMethod: only a method with an identifier key is recorded
ExtractMethods(source) ==
  IF "K" \in source.decls
  THEN <<[id |-> MethodId, name |-> "run", className |-> "K", classId |-> ClassId,
          file |-> SourceFile]>>
  ELSE <<>>

ParseFileDetailed(source) ==
  [file |-> SourceFile,
   functions |-> ExtractFunctions(source),
   classes |-> ExtractClasses(source),
   methods |-> ExtractMethods(source),
   calls |-> ExtractCalls(source.ctx, source.calls)]

(***************************************************************************)
(* parseProject: pass 2 resolves each call and pushes it once.             *)
(***************************************************************************)
\* methodRegistry.get(`${className}.${methodName}`)
MethodCandidates(pd, className, methodName) ==
  SelectSeq(pd.methods, LAMBDA m : m.className = className /\ m.name = methodName)

\* step 0: obj.method() through the instance mapping
ResolveMethodCall(pd, c) ==
  IF c.type = "method_call" /\ c.receiver # Absent /\ c.method # Absent
       /\ c.receiver \in DOMAIN InstanceMapping
  THEN LET candidates == MethodCandidates(pd, InstanceMapping[c.receiver], c.method)
       IN IF candidates = <<>> THEN Absent ELSE candidates[1].id
  ELSE Absent

\* step 0b: the receiver is imported from a package
ExternalReceiver(c) ==
  c.type = "method_call" /\ c.receiver # Absent /\ c.receiver \in DOMAIN Imports

\* steps 2 and 3: a function of that name in the file (one file: the registry
\* holds the same functions)
ResolveLocal(pd, c) ==
  LET found == SelectSeq(pd.functions, LAMBDA f : f.name = c.calleeName)
  IN IF found = <<>> THEN Absent ELSE found[1].id

\* the call as pass 2 pushes it
ResolveCall(pd, c) ==
  IF c.calleeName = Absent THEN c
  ELSE IF ResolveMethodCall(pd, c) # Absent
  THEN [c EXCEPT !.to = ResolveMethodCall(pd, c), !.resolved = "true",
                 !.external = "false", !.moduleName = Absent]
  ELSE IF ExternalReceiver(c)
  THEN [c EXCEPT !.resolved = "false", !.external = "true",
                 !.moduleName = Imports[c.receiver]]
  ELSE IF ResolveLocal(pd, c) # Absent
  THEN [c EXCEPT !.to = ResolveLocal(pd, c), !.resolved = "true",
                 !.external = "false", !.moduleName = Absent]
  ELSE [c EXCEPT !.resolved = "false", !.external = "false", !.moduleName = Absent]

\* `${from}::${to}::${calleeName ?? ""}::${moduleName ?? ""}::${!!external}`
CallKey(c) ==
  Parts(c.from) \o Parts(c.to)
    \o <<IF c.calleeName = Absent THEN "" ELSE c.calleeName,
         IF c.moduleName = Absent THEN "" ELSE c.moduleName,
         IF c.external = "true" THEN "true" ELSE "false">>

PushCall(allCalls, c) ==
  IF \E i \in 1..Len(allCalls) : CallKey(allCalls[i]) = CallKey(c) THEN allCalls
  ELSE Append(allCalls, c)

RECURSIVE ResolveCalls(_, _, _)
ResolveCalls(pd, calls, allCalls) ==
  IF calls = <<>> THEN allCalls
  ELSE ResolveCalls(pd, Tail(calls), PushCall(allCalls, ResolveCall(pd, Head(calls))))

ParseProject(source) ==
  LET pd == ParseFileDetailed(source)
  IN [functions |-> pd.functions,
      classes |-> pd.classes,
      methods |-> pd.methods,
      calls |-> ResolveCalls(pd, pd.calls, <<>>),
      files |-> <<pd.file>>]

(***************************************************************************)
(* parseProject over two files.  a.js is parsed first and makes one call;  *)
(* b.js only declares.  a.js may import sign from the package jsonwebtoken *)
(* or from ./b, may declare a function sign in an inner scope, and may     *)
(* declare the classes A and AB, each with the methods m and run, class A  *)
(* possibly with a static run next to run.  b.js may declare the function  *)
(* sign, exported or not, and an object literal with a method sign.        *)
(***************************************************************************)
CallerFile == "a.js"
OtherFile == "b.js"
ProjectFiles == <<CallerFile, OtherFile>>

\* `${normalizeFile(filePath, rootBase)}:TOPLEVEL`
CallerTopLevelId == "a.js:TOPLEVEL"
\* idForNode: `${file}:${start.line}:${start.column}-${end.line}:${end.column}`
LocalSignId == "a.js:5:2-5:22"
OtherSignId == "b.js:1:0-1:20"
OtherObjectSignId == "b.js:3:2-3:14"

ClassNames == {"A", "AB"}
\* `class:${file}:${className}`
ClassIdOf(className) == IF className = "A" THEN "class:a.js:A" ELSE "class:a.js:AB"
\* `class:${file}:${className}.${methodName}`
MethodIdOf(className, methodName) ==
  CASE className = "A" /\ methodName = "m" -> "class:a.js:A.m"
    [] className = "A" /\ methodName = "run" -> "class:a.js:A.run"
    [] className = "AB" /\ methodName = "m" -> "class:a.js:AB.m"
    [] className = "AB" /\ methodName = "run" -> "class:a.js:AB.run"

\* the characters of a caller id and of a class name
Spelling(s) ==
  CASE s = "A" -> <<"A">>
    [] s = "AB" -> <<"A", "B">>
    [] s = "a.js:TOPLEVEL" ->
         <<"a", ".", "j", "s", ":", "T", "O", "P", "L", "E", "V", "E", "L">>
    [] s = "class:a.js:A.m" ->
         <<"c", "l", "a", "s", "s", ":", "a", ".", "j", "s", ":", "A", ".", "m">>
    [] s = "class:a.js:AB.m" ->
         <<"c", "l", "a", "s", "s", ":", "a", ".", "j", "s", ":", "A", "B", ".", "m">>

\* s.includes(sub)
StringIncludes(s, sub) ==
  LET cs == Spelling(s)
      sb == Spelling(sub)
  IN \E i \in 0..(Len(cs) - Len(sb)) : SubSeq(cs, i + 1, i + Len(sb)) = sb

\* the call of a.js, on line 9: sign() or this.run()
ProjectCallForms ==
  {[calleeName |-> "sign", receiver |-> Absent, method |-> Absent, type |-> "call"],
   [calleeName |-> "run", receiver |-> Absent, method |-> "run", type |-> "method_call"]}

\* `placeholder::${file}::${calleeName ?? "anonymous"}::${line}`
ProjectPlaceholderIdOf(calleeName) ==
  IF calleeName = "sign" THEN "placeholder::a.js::sign::9" ELSE "placeholder::a.js::run::9"

ClassOrders == {<<>>, <<"A">>, <<"AB">>, <<"A", "AB">>, <<"AB", "A">>}

Projects ==
  {p \in [imports : {"none", "external", "relative"},
          localSign : BOOLEAN,
          otherFunctions : SUBSET {"sign", "o.sign"},
          otherExported : BOOLEAN,
          classes : ClassOrders,
          staticRun : BOOLEAN,
          form : ProjectCallForms,
          ctx : {"top", "A.m", "AB.m"}] :
     /\ p.otherExported => "sign" \in p.otherFunctions
     /\ p.staticRun => \E i \in 1..Len(p.classes) : p.classes[i] = "A"
     /\ p.ctx = "A.m" => \E i \in 1..Len(p.classes) : p.classes[i] = "A"
     /\ p.ctx = "AB.m" => \E i \in 1..Len(p.classes) : p.classes[i] = "AB"}

FunctionNode(id, name, file) == [id |-> id, name |-> name, file |-> file]
ClassNode(className) == [id |-> ClassIdOf(className), name |-> className, file |-> CallerFile]
MethodNode(className, methodName) ==
  [id |-> MethodIdOf(className, methodName), name |-> methodName, className |-> className,
   classId |-> ClassIdOf(className), file |-> CallerFile]

\* recordMethod: a method whose id is already recorded is not pushed again
RecordMethod(methods, m) ==
  IF \E i \in 1..Len(methods) : methods[i].id = m.id THEN methods ELSE Append(methods, m)

\* the class methods in source order: m, run and, for A, the static run
DeclaredMethods(p, className) ==
  <<MethodNode(className, "m"), MethodNode(className, "run")>>
    \o (IF className = "A" /\ p.staticRun THEN <<MethodNode(className, "run")>> ELSE <<>>)

RECURSIVE RecordMethods(_, _)
RecordMethods(methods, declared) ==
  IF declared = <<>> THEN methods
  ELSE RecordMethods(RecordMethod(methods, Head(declared)), Tail(declared))

RECURSIVE RecordClassMethods(_, _, _)
RecordClassMethods(p, classNames, methods) ==
  IF classNames = <<>> THEN methods
  ELSE RecordClassMethods(p, Tail(classNames),
                          RecordMethods(methods, DeclaredMethods(p, Head(classNames))))

\* imports.set(localName, { importedName, source })
ImportsOf(p, file) ==
  IF file = CallerFile /\ p.imports # "none"
  THEN <<[local |-> "sign", importedName |-> "sign",
          source |-> IF p.imports = "external" THEN "jsonwebtoken" ELSE "./b"]>>
  ELSE <<>>

\* exports.set(name, [...(exports.get(name) || []), id])
ExportsOf(p, file) ==
  IF file = OtherFile /\ p.otherExported
  THEN <<[name |-> "sign", ids |-> <<OtherSignId>>]>>
  ELSE <<>>

ProjectCallerOf(ctx) ==
  CASE ctx = "top" -> CallerTopLevelId
    [] ctx = "A.m" -> MethodIdOf("A", "m")
    [] ctx = "AB.m" -> MethodIdOf("AB", "m")

\* calls.push({ from, to: pl, type, calleeName, receiver, method, resolved: false })
ProjectCall(p) ==
  [from |-> ProjectCallerOf(p.ctx),
   to |-> ProjectPlaceholderIdOf(p.form.calleeName),
   type |-> p.form.type,
   calleeName |-> p.form.calleeName,
   receiver |-> p.form.receiver,
   method |-> p.form.method,
   resolved |-> "false",
   external |-> Absent,
   moduleName |-> Absent]

\* pass 1 for one file of the project
ParseFile(p, file) ==
  [file |-> file,
   functions |->
     IF file = CallerFile
     THEN (IF p.localSign THEN <<FunctionNode(LocalSignId, "sign", CallerFile)>> ELSE <<>>)
     ELSE (IF "sign" \in p.otherFunctions
           THEN <<FunctionNode(OtherSignId, "sign", OtherFile)>> ELSE <<>>)
            \o (IF "o.sign" \in p.otherFunctions
                THEN <<FunctionNode(OtherObjectSignId, "sign", OtherFile)>> ELSE <<>>),
   classes |->
     IF file = CallerFile THEN [i \in 1..Len(p.classes) |-> ClassNode(p.classes[i])] ELSE <<>>,
   methods |-> IF file = CallerFile THEN RecordClassMethods(p, p.classes, <<>>) ELSE <<>>,
   calls |-> IF file = CallerFile THEN <<ProjectCall(p)>> ELSE <<>>,
   instanceMapping |-> <<>>,
   imports |-> ImportsOf(p, file),
   exports |-> ExportsOf(p, file)]

\* fileData in insertion order
FileData(p) == [i \in 1..Len(ProjectFiles) |-> ParseFile(p, ProjectFiles[i])]

RECURSIVE Flatten(_)
Flatten(seqs) == IF seqs = <<>> THEN <<>> ELSE Head(seqs) \o Flatten(Tail(seqs))

\* map.get(key) and find over a sequence of entries: the entries with that
\* key, the first of which is the answer, or none
Lookup(entries, field, key) == SelectSeq(entries, LAMBDA e : e[field] = key)

\* the functions a file's exports list under a name
ExportedFunctions(pd, name) ==
  LET entry == Lookup(pd.exports, "name", name)
  IN IF entry = <<>> THEN <<>>
     ELSE Flatten([i \in 1..Len(entry[1].ids) |->
                     SelectSeq(pd.functions, LAMBDA f : f.id = entry[1].ids[i])])

\* functionRegistry.get(name): per file, the functions declared under the name,
\* then the functions exported under it
FunctionRegistry(fileData, name) ==
  Flatten([i \in 1..Len(fileData) |->
             SelectSeq(fileData[i].functions, LAMBDA f : f.name = name)
               \o ExportedFunctions(fileData[i], name)])

\* methodRegistry.get(`${className}.${methodName}`)
MethodRegistry(fileData, className, methodName) ==
  Flatten([i \in 1..Len(fileData) |->
             SelectSeq(fileData[i].methods,
                       LAMBDA m : m.className = className /\ m.name = methodName)])

\* step 0, first half: the receiver's class through the instance mappings
ResolveByInstance(fileData, pd, c) ==
  LET mapping == Lookup(pd.instanceMapping, "var", c.receiver)
      global == Lookup(Flatten([i \in 1..Len(fileData) |-> fileData[i].instanceMapping]),
                       "var", c.receiver)
      className == IF mapping # <<>> THEN mapping[1].className
                   ELSE IF global # <<>> THEN global[1].className ELSE Absent
      candidates == MethodRegistry(fileData, className, c.method)
      sameFile == SelectSeq(candidates, LAMBDA m : m.file = pd.file)
  IN IF className = Absent \/ candidates = <<>> THEN Absent
     ELSE IF Len(candidates) = 1 THEN candidates[1].id
     ELSE IF sameFile # <<>> THEN sameFile[1].id ELSE candidates[1].id

\* step 0, second half: receiver === "this"; the first method of the file whose
\* class name occurs in the caller id and whose class has the called method
ResolveByThis(fileData, pd, c) ==
  LET hits == SelectSeq(pd.methods,
                        LAMBDA m : /\ StringIncludes(c.from, m.className)
                                   /\ MethodRegistry(fileData, m.className, c.method) # <<>>)
  IN IF c.receiver # "this" \/ hits = <<>> THEN Absent
     ELSE MethodRegistry(fileData, hits[1].className, c.method)[1].id

ResolveMethod(fileData, pd, c) ==
  IF c.type = "method_call" /\ c.receiver # Absent /\ c.method # Absent
  THEN IF ResolveByInstance(fileData, pd, c) # Absent THEN ResolveByInstance(fileData, pd, c)
       ELSE ResolveByThis(fileData, pd, c)
  ELSE Absent

\* !src.startsWith(".") && !src.startsWith("/")
IsPackageName(source) == source \notin {"./b"}

\* tryResolveImportFile followed by normalizeFile: the project file, or Absent
TryResolveImportFile(source) ==
  IF IsPackageName(source) THEN Absent
  ELSE IF source = "./b" THEN OtherFile ELSE Absent

\* step 0b: the receiver is imported from a package
ExternalReceiverImport(pd, c) ==
  IF c.type = "method_call" /\ c.receiver # Absent
  THEN LET receiverImport == Lookup(pd.imports, "local", c.receiver)
       IN IF receiverImport # <<>> /\ IsPackageName(receiverImport[1].source)
          THEN receiverImport[1].source ELSE Absent
  ELSE Absent

\* step 1, external = true: the callee name is imported and its source does not
\* resolve to a file
ImportedFromPackage(pd, c) ==
  LET importInfo == Lookup(pd.imports, "local", c.calleeName)
  IN IF importInfo # <<>> /\ TryResolveImportFile(importInfo[1].source) = Absent
     THEN importInfo[1].source ELSE Absent

\* step 1, resolvedId: a named import from a project file (the project has no
\* default and no namespace import)
ResolveViaImport(fileData, pd, c) ==
  LET importInfo == Lookup(pd.imports, "local", c.calleeName)
      norm == IF importInfo = <<>> THEN Absent ELSE TryResolveImportFile(importInfo[1].source)
      targetPd == Lookup(fileData, "file", norm)
  IN IF importInfo = <<>> \/ norm = Absent \/ targetPd = <<>> THEN Absent
     ELSE LET exported == Lookup(targetPd[1].exports, "name", importInfo[1].importedName)
              fn == Lookup(targetPd[1].functions, "name", importInfo[1].importedName)
          IN IF exported # <<>> /\ exported[1].ids # <<>> THEN exported[1].ids[1]
             ELSE IF fn # <<>> THEN fn[1].id ELSE Absent

\* step 2: pd.functions.find((x) => x.name === name)
ResolveLocally(pd, c) ==
  LET localFn == Lookup(pd.functions, "name", c.calleeName)
  IN IF localFn = <<>> THEN Absent ELSE localFn[1].id

\* step 3: if (candidates.length === 1) resolvedId = candidates[0].id
ResolveGlobally(fileData, c) ==
  LET candidates == FunctionRegistry(fileData, c.calleeName)
  IN IF Len(candidates) = 1 THEN candidates[1].id ELSE Absent

\* steps 1 to 3: the first that yields an id
ResolveFunction(fileData, pd, c) ==
  IF ResolveViaImport(fileData, pd, c) # Absent THEN ResolveViaImport(fileData, pd, c)
  ELSE IF ResolveLocally(pd, c) # Absent THEN ResolveLocally(pd, c)
  ELSE ResolveGlobally(fileData, c)

Resolved(c, id) ==
  [c EXCEPT !.to = id, !.resolved = "true", !.external = "false", !.moduleName = Absent]

External(c, moduleName) ==
  [c EXCEPT !.resolved = "false", !.external = "true", !.moduleName = moduleName]

\* the call as pass 2 pushes it
ResolveProjectCall(fileData, pd, c) ==
  IF c.calleeName = Absent THEN c
  ELSE IF ResolveMethod(fileData, pd, c) # Absent THEN Resolved(c, ResolveMethod(fileData, pd, c))
  ELSE IF ExternalReceiverImport(pd, c) # Absent THEN External(c, ExternalReceiverImport(pd, c))
  ELSE IF ResolveFunction(fileData, pd, c) # Absent
  THEN Resolved(c, ResolveFunction(fileData, pd, c))
  ELSE IF ImportedFromPackage(pd, c) # Absent THEN External(c, ImportedFromPackage(pd, c))
  ELSE [c EXCEPT !.resolved = "false", !.external = "false", !.moduleName = Absent]

RECURSIVE ResolveProjectCalls(_, _, _, _)
ResolveProjectCalls(fileData, pd, calls, allCalls) ==
  IF calls = <<>> THEN allCalls
  ELSE ResolveProjectCalls(fileData, pd, Tail(calls),
                           PushCall(allCalls, ResolveProjectCall(fileData, pd, Head(calls))))

RECURSIVE ResolveFiles(_, _, _)
ResolveFiles(fileData, i, allCalls) ==
  IF i > Len(fileData) THEN allCalls
  ELSE ResolveFiles(fileData, i + 1,
                    ResolveProjectCalls(fileData, fileData[i], fileData[i].calls, allCalls))

\* allFunctions, allClasses, allMethods: every id once, in file order
RECURSIVE UniqueById(_, _)
UniqueById(entities, seen) ==
  IF entities = <<>> THEN seen
  ELSE UniqueById(Tail(entities),
                  IF \E i \in 1..Len(seen) : seen[i].id = Head(entities).id THEN seen
                  ELSE Append(seen, Head(entities)))

ParseProjectFiles(p) ==
  LET fileData == FileData(p)
  IN [functions |-> UniqueById(Flatten([i \in 1..Len(fileData) |-> fileData[i].functions]), <<>>),
      classes |-> UniqueById(Flatten([i \in 1..Len(fileData) |-> fileData[i].classes]), <<>>),
      methods |-> UniqueById(Flatten([i \in 1..Len(fileData) |-> fileData[i].methods]), <<>>),
      calls |-> ResolveFiles(fileData, 1, <<>>),
      files |-> [i \in 1..Len(fileData) |-> fileData[i].file]]

(***************************************************************************)
(* buildGraph.  A graph is [nodes, edges], both in insertion order; a node *)
(* is [id, type, meta] and an edge [from, to, type, meta].                 *)
(***************************************************************************)
\* a metadata object with no optional key set; kind tells an object from a
\* metadata that is undefined or null
NoMeta ==
  [kind |-> "object", calleeName |-> Absent, resolved |-> Absent, external |-> Absent,
   moduleName |-> Absent, receiver |-> Absent, method |-> Absent, isFramework |-> Absent]

\* an edge written without meta
UndefinedMeta == [NoMeta EXCEPT !.kind = "undefined"]

GraphNode(id, type, label, meta) == [id |-> id, type |-> type, label |-> label, meta |-> meta]
GraphEdge(from, to, type, meta) == [from |-> from, to |-> to, type |-> type, meta |-> meta]

EmptyGraph == [nodes |-> <<>>, edges |-> <<>>]

\* nodes.has(id)
HasNode(g, id) == \E i \in 1..Len(g.nodes) : g.nodes[i].id = id

\* the node with that id
NodeOf(g, id) == g.nodes[CHOOSE i \in 1..Len(g.nodes) : g.nodes[i].id = id]

\* addNode: the first node of an id stays
AddNode(g, n) == IF HasNode(g, n.id) THEN g ELSE [g EXCEPT !.nodes = Append(g.nodes, n)]

\* `${e.from}::${e.to}::${e.type}`
EdgeKey(e) == Parts(e.from) \o Parts(e.to) \o <<e.type>>

\* an edge list that takes every edge
AddEdgeAlways(g, e) == [g EXCEPT !.edges = Append(g.edges, e)]

\* addEdge: the first edge of a key stays
AddEdge(g, e) ==
  IF \E i \in 1..Len(g.edges) : EdgeKey(g.edges[i]) = EdgeKey(e) THEN g
  ELSE [g EXCEPT !.edges = Append(g.edges, e)]

\* `${method.className}.${method.name}`
MethodLabel(method) ==
  IF method.className = "K" /\ method.name = "run" THEN "K.run" ELSE method.id

RECURSIVE BuildClasses(_, _)
\* 0) class nodes; the edge from the file only if the file node is there already
BuildClasses(g, classes) ==
  IF classes = <<>> THEN g
  ELSE LET cls == Head(classes)
           g1 == AddNode(g, GraphNode(cls.id, "class", cls.name, NoMeta))
           g2 == IF HasNode(g1, FileIdOf(cls.file))
                 THEN AddEdge(g1, GraphEdge(FileIdOf(cls.file), cls.id, "contains", UndefinedMeta))
                 ELSE g1
       IN BuildClasses(g2, Tail(classes))

RECURSIVE BuildMethods(_, _)
\* 0b) method nodes; the edge from the class if the class node is there
BuildMethods(g, methods) ==
  IF methods = <<>> THEN g
  ELSE LET method == Head(methods)
           g1 == AddNode(g, GraphNode(method.id, "method", MethodLabel(method), NoMeta))
           g2 == IF HasNode(g1, method.classId)
                 THEN AddEdge(g1, GraphEdge(method.classId, method.id, "contains", UndefinedMeta))
                 ELSE g1
       IN BuildMethods(g2, Tail(methods))

\* a files step that adds no edge to a class
ContainClassesNever(g, file, classes) == g

RECURSIVE ContainClasses(_, _, _)
\* the classes of a file that no edge from the file reaches yet
ContainClasses(g, file, classes) ==
  IF classes = <<>> THEN g
  ELSE LET cls == Head(classes)
           id == FileIdOf(file)
           g1 == IF cls.file = file
                      /\ ~\E i \in 1..Len(g.edges) : g.edges[i].from = id /\ g.edges[i].to = cls.id
                 THEN AddEdge(g, GraphEdge(id, cls.id, "contains", UndefinedMeta))
                 ELSE g
       IN ContainClasses(g1, file, Tail(classes))

RECURSIVE BuildFiles(_, _, _)
\* 1) file nodes
BuildFiles(g, files, classes) ==
  IF files = <<>> THEN g
  ELSE LET g1 == AddNode(g, GraphNode(FileIdOf(Head(files)), "file", Head(files), NoMeta))
       IN BuildFiles(ContainClasses(g1, Head(files), classes), Tail(files), classes)

RECURSIVE BuildFunctions(_, _)
\* 2) function nodes and the edge from the file, whose node is created if missing
BuildFunctions(g, functions) ==
  IF functions = <<>> THEN g
  ELSE LET fn == Head(functions)
           label == IF fn.name = Absent THEN fn.id ELSE fn.name
           g1 == AddNode(g, GraphNode(fn.id, "function", label, NoMeta))
           g2 == AddNode(g1, GraphNode(FileIdOf(fn.file), "file", fn.file, NoMeta))
       IN BuildFunctions(AddEdge(g2, GraphEdge(FileIdOf(fn.file), fn.id, "contains", UndefinedMeta)),
                         Tail(functions))

\* from.endsWith(":TOPLEVEL")
IsTopLevel(from) == from = TopLevelId

\* the caller's node id: the file for X:TOPLEVEL
FromNodeId(from) == IF IsTopLevel(from) THEN FileIdOf(SourceFile) ELSE from

\* the caller's node is ensured: a file node, or a placeholder for an unknown id
EnsureCaller(g, from) ==
  IF IsTopLevel(from) THEN AddNode(g, GraphNode(FromNodeId(from), "file", SourceFile, NoMeta))
  ELSE AddNode(g, GraphNode(from, "placeholder", from, [NoMeta EXCEPT !.calleeName = "null"]))

FrameworkReceivers == {"res", "req", "app", "next", "router", "express"}
IsFrameworkCall(c) == c.receiver # Absent /\ c.receiver \in FrameworkReceivers

\* `if (call.receiver) m.receiver = ...; if (call.method) m.method = ...`
WithReceiverMethod(meta, c) == [meta EXCEPT !.receiver = c.receiver, !.method = c.method]

\* `if (isFrameworkCall) m.isFramework = true`
WithFramework(meta, c) ==
  IF IsFrameworkCall(c) THEN [meta EXCEPT !.isFramework = "true"] ELSE meta

\* `calleeName: call.calleeName ?? null`
EdgeMeta(c) ==
  [NoMeta EXCEPT !.calleeName = IF c.calleeName = Absent THEN "null" ELSE c.calleeName]

\* the label and the callee name of a placeholder node come from its id
PlaceholderMeta(c) == [NoMeta EXCEPT !.calleeName = Parts(c.to)[3]]

\* `${call.receiver}.${call.method}()`, else `${meta.calleeName}()`
PlaceholderLabel(c) ==
  IF c.receiver # Absent /\ c.method # Absent
  THEN CASE c.receiver = "k" -> "k.run()"
         [] c.receiver = "jwt" -> "jwt.sign()"
         [] c.receiver = "bc" -> "bc.sign()"
  ELSE CASE Parts(c.to)[3] = "g" -> "g()"
         [] Parts(c.to)[3] = "sign" -> "sign()"
         [] Parts(c.to)[3] = "run" -> "run()"
         [] Parts(c.to)[3] = "anonymous" -> "anonymous()"

\* case A: resolved and not external
BuildResolved(g, c) ==
  LET g1 == AddNode(g, GraphNode(c.to, "placeholder", c.to, [NoMeta EXCEPT !.calleeName = "null"]))
      meta == WithFramework(WithReceiverMethod([EdgeMeta(c) EXCEPT !.resolved = "true"], c), c)
  IN AddEdge(g1, GraphEdge(FromNodeId(c.from), c.to, c.type, meta))

\* the metadata of the placeholder node an external call creates
ExternalPlaceholderMeta(c) ==
  WithReceiverMethod(
    [PlaceholderMeta(c) EXCEPT !.external = "true", !.moduleName = c.moduleName,
                               !.isFramework = IF IsFrameworkCall(c) THEN "true" ELSE "false"],
    c)

\* `external:${call.moduleName}`
ExternalIdOf(moduleName) ==
  IF moduleName = "jsonwebtoken" THEN "external:jsonwebtoken" ELSE "external:bcrypt"

\* case B: external with a module name
BuildExternal(g, c) ==
  LET g1 == AddNode(g, GraphNode(c.to, "placeholder", PlaceholderLabel(c),
                                 ExternalPlaceholderMeta(c)))
      meta == WithFramework(WithReceiverMethod(
                [EdgeMeta(c) EXCEPT !.external = "true", !.moduleName = c.moduleName], c), c)
      g2 == AddEdge(g1, GraphEdge(FromNodeId(c.from), c.to, c.type, meta))
  IN AddNode(g2, GraphNode(ExternalIdOf(c.moduleName), "external", c.moduleName,
                           [NoMeta EXCEPT !.moduleName = c.moduleName,
                                          !.isFramework = IF IsFrameworkCall(c) THEN "true" ELSE "false"]))

\* case C: unresolved
BuildUnresolved(g, c) ==
  LET g1 == AddNode(g, GraphNode(c.to, "placeholder", PlaceholderLabel(c),
                                 WithFramework(WithReceiverMethod(PlaceholderMeta(c), c), c)))
      meta == WithFramework(WithReceiverMethod([EdgeMeta(c) EXCEPT !.resolved = "false"], c), c)
  IN AddEdge(g1, GraphEdge(FromNodeId(c.from), c.to, c.type, meta))

\* one turn of the loop over ir.calls
BuildCall(g, c) ==
  LET g1 == EnsureCaller(g, c.from)
  IN IF c.resolved = "true" /\ c.external # "true" THEN BuildResolved(g1, c)
     ELSE IF c.external = "true" /\ c.moduleName # Absent THEN BuildExternal(g1, c)
     ELSE BuildUnresolved(g1, c)

RECURSIVE BuildCalls(_, _)
\* 3) the calls
BuildCalls(g, calls) ==
  IF calls = <<>> THEN g ELSE BuildCalls(BuildCall(g, Head(calls)), Tail(calls))

BuildGraph(ir) ==
  BuildCalls(
    BuildFunctions(
      BuildFiles(BuildMethods(BuildClasses(EmptyGraph, ir.classes), ir.methods),
                 ir.files, ir.classes),
      ir.functions),
    ir.calls)

(***************************************************************************)
(* The store: the nodes and edges tables of the database file, written by  *)
(* saveGraph through NodeStore and EdgeStore over the native adapter and   *)
(* read back by getAllNodes and getAllEdges.  A meta column holds the JSON *)
(* text of an object, or NULL.                                             *)
(***************************************************************************)
\* NULL in a label column, null in a row read back
SqlNull == "null"

\* NULL in a meta column, null in a row read back
NullMeta == [NoMeta EXCEPT !.kind = SqlNull]

\* a meta column that is always NULL
MetaToColumnNull(meta) == NullMeta

\* `meta ? JSON.stringify(meta) : null`
MetaToColumn(meta) == IF meta.kind = "object" THEN meta ELSE NullMeta

\* `r.meta ? JSON.parse(r.meta) : null`
ColumnToMeta(column) == IF column.kind = SqlNull THEN NullMeta ELSE column

\* `label: node.label || null`
LabelToColumn(label) == IF label \in {Absent, ""} THEN SqlNull ELSE label

\* the row NodeStore.upsert binds
NodeRowOf(n) ==
  [id |-> n.id, type |-> n.type, label |-> LabelToColumn(n.label), meta |-> MetaToColumn(n.meta)]

\* the row EdgeStore.upsert binds
EdgeRowOf(e) ==
  [from_id |-> e.from, to_id |-> e.to, type |-> e.type, meta |-> MetaToColumn(e.meta)]

\* INSERT INTO nodes ... ON CONFLICT(id) DO UPDATE SET type, label, meta
NodeStoreUpsert(table, n) ==
  IF \E i \in 1..Len(table) : table[i].id = n.id
  THEN [i \in 1..Len(table) |-> IF table[i].id = n.id THEN NodeRowOf(n) ELSE table[i]]
  ELSE Append(table, NodeRowOf(n))

\* the edge rows of the same (from_id, to_id, type)
SameTriple(row, e) == row.from_id = e.from /\ row.to_id = e.to /\ row.type = e.type

\* INSERT INTO edges ... ON CONFLICT(from_id, to_id, type) DO UPDATE SET meta
EdgeStoreUpsert(table, e) ==
  IF \E i \in 1..Len(table) : SameTriple(table[i], e)
  THEN [i \in 1..Len(table) |-> IF SameTriple(table[i], e) THEN EdgeRowOf(e) ELSE table[i]]
  ELSE Append(table, EdgeRowOf(e))

\* the two tables
Tables(d) == [nodes |-> d.nodes, edges |-> d.edges]
NoTables == [nodes |-> <<>>, edges |-> <<>>]

\* a reset that drops nothing
ResetSchemaNever(d) == d

\* resetSchema: DROP TABLE edges, nodes; ensureSchema
ResetSchema(d) == [d EXCEPT !.nodes = <<>>, !.edges = <<>>]

\* a rollback that undoes nothing
RollbackNothing(d) == d

\* ROLLBACK: the tables as they were at BEGIN
Rollback(d) == [d EXCEPT !.nodes = d.begun.nodes, !.edges = d.begun.edges]

\* getAllNodes without options
GetAllNodes(d) ==
  {[id |-> d.nodes[i].id, type |-> d.nodes[i].type, label |-> d.nodes[i].label,
    meta |-> ColumnToMeta(d.nodes[i].meta)] : i \in 1..Len(d.nodes)}

\* getAllEdges
GetAllEdges(d) ==
  {[from |-> d.edges[i].from_id, to |-> d.edges[i].to_id, type |-> d.edges[i].type,
    meta |-> ColumnToMeta(d.edges[i].meta)] : i \in 1..Len(d.edges)}

NotLoaded == [given |-> FALSE, nodes |-> {}, edges |-> {}]

\* the write workflows: saveGraphToDb (behind saveGraph and saveGraphWasm of
\* the same file) and saveGraph of persistence/saveGraph.ts
Workflows == {"saveGraphToDb", "saveGraph"}

\* whether the workflow reaches db.close() when it throws: saveGraphToDb
\* closes in a finally block, saveGraph after insert(graph) only
ClosesOnThrow(workflow) == workflow = "saveGraphToDb"

\* a database file with empty tables and no connection open: pc is the
\* position of the save, j the next upsert of its two loops, begun the
\* tables at BEGIN, before the tables when the save started, outcome how
\* the last save ended, loaded what was read back since, workflow the
\* function that saves, connections the connections opened and not closed
ClosedDb ==
  [nodes |-> <<>>, edges |-> <<>>, begun |-> NoTables, before |-> NoTables,
   pc |-> "closed", j |-> 1, outcome |-> "none", saves |-> 0, upserts |-> 0,
   loaded |-> NotLoaded, workflow |-> "saveGraphToDb", connections |-> 0]

\* no connection: the null of GraphService.db and GraphService.api
NoConnection == [load |-> 0, project |-> "null"]

\* a GraphService after construction: api, db and currentProject are null;
\* pending are the loadProject calls that await loadGraphAPI, loads the
\* number of calls so far, open the connections opened and not closed
NoService ==
  [api |-> NoConnection, db |-> NoConnection, currentProject |-> "null",
   pending |-> {}, loads |-> 0, open |-> {}, disposed |-> FALSE]

\* an AnalysisWorker after construction: no promise, process null; child is
\* the position of the worker script, channel the messages it sent that the
\* host has not received, events the process events not yet handled
NoWorker ==
  [promise |-> "none", result |-> "none", resolves |-> 0, handle |-> FALSE,
   child |-> "none", channel |-> <<>>, events |-> {}, cancelled |-> FALSE]

\* no traversal in progress
RunIdle ==
  [alg |-> "none", pc |-> "idle", dir |-> "callees", start |-> MissingId,
   target |-> MissingId, limit |-> 0, queue |-> <<>>, visited |-> {},
   stack |-> <<>>, path |-> <<>>, result |-> <<>>]

\* no build in progress
NotBuilding ==
  [phase |-> "none", source |-> [decls |-> {}, ctx |-> "top", calls |-> <<>>], ir |-> <<>>,
   graph |-> EmptyGraph]

\* what the build leaves alone
unbuilt == <<nodes, edges, call, ret, run, db, service, worker>>

InitBuild ==
  /\ nodes = NodeRows
  /\ edges = <<>>
  /\ call = Idle
  /\ ret = <<>>
  /\ run = RunIdle
  /\ build \in {[NotBuilding EXCEPT !.phase = "source", !.source = s] : s \in Sources}
  /\ db = ClosedDb
  /\ service = NoService
  /\ worker = NoWorker

\* const ir = await parseProject(rootPath)
ParseProjectStep ==
  /\ build.phase = "source"
  /\ build' = [build EXCEPT !.phase = "ir", !.ir = ParseProject(build.source)]
  /\ UNCHANGED unbuilt

\* const graph = buildGraph(ir)
BuildGraphStep ==
  /\ build.phase = "ir"
  /\ build' = [build EXCEPT !.phase = "graph", !.graph = BuildGraph(build.ir)]
  /\ UNCHANGED unbuilt

NextBuild ==
  \/ ParseProjectStep
  \/ BuildGraphStep

SpecBuild == InitBuild /\ [][NextBuild]_vars

(***************************************************************************)
(* The analysis of a project of two files: parseProject(rootPath).         *)
(***************************************************************************)
InitResolve ==
  /\ nodes = NodeRows
  /\ edges = <<>>
  /\ call = Idle
  /\ ret = <<>>
  /\ run = RunIdle
  /\ build \in {[NotBuilding EXCEPT !.phase = "project", !.source = p] : p \in Projects}
  /\ db = ClosedDb
  /\ service = NoService
  /\ worker = NoWorker

\* const ir = await parseProject(rootPath)
ParseProjectFilesStep ==
  /\ build.phase = "project"
  /\ build' = [build EXCEPT !.phase = "ir", !.ir = ParseProjectFiles(build.source)]
  /\ UNCHANGED unbuilt

NextResolve == ParseProjectFilesStep

SpecResolve == InitResolve /\ [][NextResolve]_vars

(***************************************************************************)
(* Saving: saveGraph(graph, dbPath) resets the schema, begins a            *)
(* transaction, upserts the nodes and then the edges, and commits; a       *)
(* failing upsert rolls back and rethrows.  The stores are also written    *)
(* directly, one upsert at a time.                                         *)
(***************************************************************************)
\* the sources whose graphs are saved: calls at top level on line 1
StoreForms == {f \in CallForms : f.receiver \in {"jwt", "bc"} \/ f.calleeName = "g"}
StoreSources ==
  {s \in Sources :
     /\ s.decls = Declarations
     /\ s.ctx = "top"
     /\ \A i \in 1..Len(s.calls) : s.calls[i].line = "1" /\ s.calls[i].form \in StoreForms}

\* what an earlier build left: a file node, and the same id written again
\* without label and metadata
StaleNodes ==
  {GraphNode("file:old.js", "file", "old.js", NoMeta),
   GraphNode("file:old.js", "placeholder", Absent, UndefinedMeta)}

StaleEdges ==
  {GraphEdge("file:old.js", "file:m.js", "contains", UndefinedMeta),
   GraphEdge("file:old.js", "file:m.js", "contains", [NoMeta EXCEPT !.resolved = "false"])}

\* the number of upserts of a save
UpsertCount(g) == Len(g.nodes) + Len(g.edges)

\* what saving leaves alone
unsaved == <<nodes, edges, call, ret, run, build, service, worker>>

InitStore ==
  /\ nodes = NodeRows
  /\ edges = <<>>
  /\ call = Idle
  /\ ret = <<>>
  /\ run = RunIdle
  /\ build \in {[NotBuilding EXCEPT !.phase = "source", !.source = s] : s \in StoreSources}
  /\ db = ClosedDb
  /\ service = NoService
  /\ worker = NoWorker

\* nodeStore.upsert(n) on the file, outside saveGraph
DirectNodeUpsert ==
  /\ db.pc = "closed"
  /\ db.upserts < MaxUpserts
  /\ \E n \in StaleNodes :
       db' = [db EXCEPT !.nodes = NodeStoreUpsert(db.nodes, n), !.upserts = @ + 1,
                        !.outcome = "none", !.loaded = NotLoaded]
  /\ UNCHANGED unsaved

\* edgeStore.upsert(e) on the file, outside saveGraph
DirectEdgeUpsert ==
  /\ db.pc = "closed"
  /\ db.upserts < MaxUpserts
  /\ \E e \in StaleEdges :
       db' = [db EXCEPT !.edges = EdgeStoreUpsert(db.edges, e), !.upserts = @ + 1,
                        !.outcome = "none", !.loaded = NotLoaded]
  /\ UNCHANGED unsaved

\* a save up to the loops: open, resetSchema, BEGIN
StartSaveWith(W) ==
  /\ db.pc = "closed"
  /\ build.phase = "graph"
  /\ db.saves < MaxSaves
  /\ \E w \in W :
       LET reset == ResetSchema(db)
       IN db' = [reset EXCEPT !.before = Tables(db), !.begun = Tables(reset), !.pc = "writing",
                              !.j = 1, !.outcome = "none", !.saves = @ + 1,
                              !.loaded = NotLoaded, !.workflow = w, !.connections = @ + 1]
  /\ UNCHANGED unsaved

\* saveGraphToDb(graph, dbPath)
StartSave == StartSaveWith({"saveGraphToDb"})

\* the tables a resetSchema that throws may leave: as they were (the first
\* DROP failed) or without the edges (the second DROP failed)
AfterFailedReset(d) == {d, [d EXCEPT !.edges = <<>>]}

\* open, and resetSchema throws
ResetFails ==
  /\ db.pc = "closed"
  /\ build.phase = "graph"
  /\ db.saves < MaxSaves
  /\ \E w \in Workflows, left \in AfterFailedReset(db) :
       db' = [left EXCEPT !.before = Tables(db), !.outcome = "reset thrown", !.saves = @ + 1,
                          !.loaded = NotLoaded, !.workflow = w,
                          !.connections = IF ClosesOnThrow(w) THEN @ ELSE @ + 1]
  /\ UNCHANGED unsaved

\* one turn of the node loop or of the edge loop
UpsertStep ==
  /\ db.pc = "writing"
  /\ db.j <= UpsertCount(build.graph)
  /\ db' = IF db.j <= Len(build.graph.nodes)
           THEN [db EXCEPT !.nodes = NodeStoreUpsert(db.nodes, build.graph.nodes[db.j]),
                           !.j = @ + 1]
           ELSE [db EXCEPT !.edges = EdgeStoreUpsert(db.edges,
                                       build.graph.edges[db.j - Len(build.graph.nodes)]),
                           !.j = @ + 1]
  /\ UNCHANGED unsaved

\* an upsert throws
UpsertFails ==
  /\ db.pc = "writing"
  /\ db.j <= UpsertCount(build.graph)
  /\ db' = [db EXCEPT !.pc = "failed"]
  /\ UNCHANGED unsaved

\* COMMIT and close
Commit ==
  /\ db.pc = "writing"
  /\ db.j > UpsertCount(build.graph)
  /\ db' = [db EXCEPT !.pc = "closed", !.outcome = "saved", !.connections = @ - 1]
  /\ UNCHANGED unsaved

\* catch: ROLLBACK, throw err; finally close (saveGraphToDb); the transaction
\* function rolls back and rethrows (saveGraph)
RollbackAndThrow ==
  /\ db.pc = "failed"
  /\ db' = [Rollback(db) EXCEPT !.pc = "closed", !.outcome = "thrown",
                                !.connections = IF ClosesOnThrow(db.workflow) THEN @ - 1 ELSE @]
  /\ UNCHANGED unsaved

\* getAllNodes() and getAllEdges() on the file
Load ==
  /\ db.pc = "closed"
  /\ ~db.loaded.given
  /\ db' = [db EXCEPT !.loaded = [given |-> TRUE, nodes |-> GetAllNodes(db),
                                  edges |-> GetAllEdges(db)]]
  /\ UNCHANGED unsaved

NextStore ==
  \/ ParseProjectStep
  \/ BuildGraphStep
  \/ DirectNodeUpsert
  \/ DirectEdgeUpsert
  \/ StartSave
  \/ UpsertStep
  \/ UpsertFails
  \/ Commit
  \/ RollbackAndThrow
  \/ Load

SpecStore == InitStore /\ [][NextStore]_vars

(***************************************************************************)
(* The write workflows alone: either function saves the built graph, and   *)
(* the schema reset may throw as an upsert may.                            *)
(***************************************************************************)
NextWrite ==
  \/ ParseProjectStep
  \/ BuildGraphStep
  \/ StartSaveWith(Workflows)
  \/ ResetFails
  \/ UpsertStep
  \/ UpsertFails
  \/ Commit
  \/ RollbackAndThrow

SpecWrite == InitStore /\ [][NextWrite]_vars


(***************************************************************************)
(* The query service: constructed over a stored graph, it answers one      *)
(* request at a time; call is the request and ret its result.              *)
(***************************************************************************)
Init ==
  /\ nodes = NodeRows
  /\ edges \in StoredEdgeTables
  /\ call = Idle
  /\ ret = <<>>
  /\ run = RunIdle
  /\ build = NotBuilding
  /\ db = ClosedDb
  /\ service = NoService
  /\ worker = NoWorker

TransitiveCallersFlatWith(F) ==
  /\ call = Idle
  /\ \E id \in QueryIds, d \in DepthArgs, flt \in F :
       LET opts == Opts(flt, d, Undefined, Undefined, Undefined)
       IN /\ call' = Request("transitiveCallersFlat", id, MissingId, opts)
          /\ ret' = TransitiveFlat(nodes, edges, "callers", id, opts)
  /\ UNCHANGED unqueried

TransitiveCallersFlat == TransitiveCallersFlatWith(FilterArgs)

TransitiveCalleesFlatWith(F) ==
  /\ call = Idle
  /\ \E id \in QueryIds, d \in DepthArgs, flt \in F :
       LET opts == Opts(flt, d, Undefined, Undefined, Undefined)
       IN /\ call' = Request("transitiveCalleesFlat", id, MissingId, opts)
          /\ ret' = TransitiveFlat(nodes, edges, "callees", id, opts)
  /\ UNCHANGED unqueried

TransitiveCalleesFlat == TransitiveCalleesFlatWith(FilterArgs)

TransitiveCallersTreeWith(F) ==
  /\ call = Idle
  /\ \E id \in QueryIds, d \in DepthArgs, flt \in F :
       LET opts == Opts(flt, d, Undefined, Undefined, Undefined)
       IN /\ call' = Request("transitiveCallersTree", id, MissingId, opts)
          /\ ret' = TransitiveTree(nodes, edges, "callers", id, opts)
  /\ UNCHANGED unqueried

TransitiveCallersTree == TransitiveCallersTreeWith(FilterArgs)

TransitiveCalleesTreeWith(F) ==
  /\ call = Idle
  /\ \E id \in QueryIds, d \in DepthArgs, flt \in F :
       LET opts == Opts(flt, d, Undefined, Undefined, Undefined)
       IN /\ call' = Request("transitiveCalleesTree", id, MissingId, opts)
          /\ ret' = TransitiveTree(nodes, edges, "callees", id, opts)
  /\ UNCHANGED unqueried

TransitiveCalleesTree == TransitiveCalleesTreeWith(FilterArgs)

AllCallChainsOp ==
  /\ call = Idle
  /\ \E s \in QueryIds, t \in QueryIds, l \in DepthArgs, m \in PathsArgs :
       LET opts == Opts(NoFilterArg, Undefined, l, m, Undefined)
       IN /\ call' = Request("allCallChains", s, t, opts)
          /\ ret' = AllCallChains(edges, s, t, opts)
  /\ UNCHANGED unqueried

GetCallersWithOp(F) ==
  /\ call = Idle
  /\ \E id \in QueryIds, flt \in F :
       LET opts == Opts(flt, Undefined, Undefined, Undefined, Undefined)
       IN /\ call' = Request("getCallers", id, MissingId, opts)
          /\ ret' = GetCallers(nodes, edges, id, opts)
  /\ UNCHANGED unqueried

GetCallersOp == GetCallersWithOp(FilterArgs)

GetCalleesWithOp(F) ==
  /\ call = Idle
  /\ \E id \in QueryIds, flt \in F :
       LET opts == Opts(flt, Undefined, Undefined, Undefined, Undefined)
       IN /\ call' = Request("getCallees", id, MissingId, opts)
          /\ ret' = GetCallees(nodes, edges, id, opts)
  /\ UNCHANGED unqueried

GetCalleesOp == GetCalleesWithOp(FilterArgs)

GetFunctionsInFileWithOp(F) ==
  /\ call = Idle
  /\ \E id \in QueryIds, flt \in F :
       LET opts == Opts(flt, Undefined, Undefined, Undefined, Undefined)
       IN /\ call' = Request("getFunctionsInFile", id, MissingId, opts)
          /\ ret' = GetFunctionsInFile(nodes, edges, id, opts)
  /\ UNCHANGED unqueried

GetFunctionsInFileOp == GetFunctionsInFileWithOp(FilterArgs)

HotspotsOp ==
  /\ call = Idle
  /\ \E top \in TopArgs, flt \in FilterArgs :
       LET opts == Opts(flt, Undefined, Undefined, Undefined, top)
       IN \E raw \in ComputeHotspots(edges, OrDefault(top, DefaultTop)) :
            /\ call' = Request("hotspots", MissingId, MissingId, opts)
            /\ ret' = Hotspots(nodes, raw, opts)
  /\ UNCHANGED unqueried

GetNodeOp ==
  /\ call = Idle
  /\ \E id \in QueryIds :
       /\ call' = Request("getNode", id, MissingId, Idle.opts)
       /\ ret' = GetNode(nodes, id)
  /\ UNCHANGED unqueried

\* the result is handed to the caller; the service is ready for the next request
Respond ==
  /\ call # Idle
  /\ call' = Idle
  /\ ret' = <<>>
  /\ UNCHANGED unqueried

Next ==
  \/ TransitiveCallersFlat
  \/ TransitiveCalleesFlat
  \/ TransitiveCallersTree
  \/ TransitiveCalleesTree
  \/ AllCallChainsOp
  \/ GetCallersOp
  \/ GetCalleesOp
  \/ GetFunctionsInFileOp
  \/ HotspotsOp
  \/ GetNodeOp
  \/ Respond

Spec == Init /\ [][Next]_vars

(***************************************************************************)
(* The filtered queries, with every shape of type filter, over stored      *)
(* graphs that may hold a call and a method_call edge between one pair.    *)
(***************************************************************************)
InitFilter ==
  /\ nodes = NodeRows
  /\ edges \in FilterEdgeTables
  /\ call = Idle
  /\ ret = <<>>
  /\ run = RunIdle
  /\ build = NotBuilding
  /\ db = ClosedDb
  /\ service = NoService
  /\ worker = NoWorker

NextFilter ==
  \/ TransitiveCallersFlatWith(TypeFilterArgs)
  \/ TransitiveCalleesFlatWith(TypeFilterArgs)
  \/ TransitiveCallersTreeWith(TypeFilterArgs)
  \/ TransitiveCalleesTreeWith(TypeFilterArgs)
  \/ GetCallersWithOp(TypeFilterArgs)
  \/ GetCalleesWithOp(TypeFilterArgs)
  \/ GetFunctionsInFileWithOp(TypeFilterArgs)
  \/ Respond

SpecFilter == InitFilter /\ [][NextFilter]_vars

(***************************************************************************)
(* searchNodes over stores of up to a few rows more than the cap of        *)
(* GraphAPIImpl: one or two rows of any kind, a run of plain function rows *)
(* and at most one last row, with at most one edge.                        *)
(***************************************************************************)
NullSearchMeta == [null |-> TRUE, name |-> NullText, moduleName |-> NullText]

\* a function, a file, a function with meta.name "J", a method labelled "J",
\* the placeholder of the module jwt
SearchKinds == {"plain", "file", "named", "labelled", "external"}

SearchRow(i, kind) ==
  [id |-> SearchIds[i],
   type |-> CASE kind = "file" -> "file"
              [] kind = "labelled" -> "method"
              [] kind = "external" -> "placeholder"
              [] OTHER -> "function",
   label |-> CASE kind = "labelled" -> Text(<<"J">>)
               [] kind = "external" -> Text(<<"j", "w", "t">>)
               [] OTHER -> Text(<<"f">>),
   meta |-> CASE kind = "named" -> [NullSearchMeta EXCEPT !.null = FALSE, !.name = Text(<<"J">>)]
              [] kind = "external" ->
                   [NullSearchMeta EXCEPT !.null = FALSE, !.moduleName = Text(<<"j", "w", "t">>)]
              [] OTHER -> NullSearchMeta]

KindSequences(n) == UNION {[1..k -> SearchKinds] : k \in 0..n}

SearchNodeTables ==
  {[i \in 1..(Len(first) + fill + Len(last)) |->
      SearchRow(i, IF i <= Len(first) THEN first[i]
                   ELSE IF i <= Len(first) + fill THEN "plain"
                   ELSE last[i - Len(first) - fill])] :
     first \in KindSequences(2), fill \in {0, 1, MaxFillers}, last \in KindSequences(1)}

\* a call through the receiver J, or a contains edge, into the first row, the
\* last row or a node that is not stored
SearchEdge(to, type) ==
  [from |-> MissingId, to |-> to, type |-> type,
   meta |-> [null |-> FALSE, receiver |-> Text(<<"J">>), moduleName |-> NullText]]

SearchEdgeTables(N) ==
  {<<>>, <<SearchEdge(MissingId, "call")>>}
    \cup (IF N = <<>> THEN {}
          ELSE {<<SearchEdge(N[1].id, "method_call")>>, <<SearchEdge(N[Len(N)].id, "call")>>,
                <<SearchEdge(N[Len(N)].id, "contains")>>})

SearchQueries == {<<"n">>, <<"J">>}

SearchFilterArgs ==
  {NoFilterArg,
   [includeTypes |-> NoTypes, excludeTypes |-> Types({"file"})],
   [includeTypes |-> Types({"function"}), excludeTypes |-> NoTypes]}

SearchRequest(q, cap, hasOptions, opts) ==
  [op |-> "searchNodes", q |-> q, cap |-> cap, hasOptions |-> hasOptions, opts |-> opts]

InitSearch ==
  /\ nodes \in SearchNodeTables
  /\ edges \in SearchEdgeTables(nodes)
  /\ call = Idle
  /\ ret = <<>>
  /\ run = RunIdle
  /\ build = NotBuilding
  /\ db = ClosedDb
  /\ service = NoService
  /\ worker = NoWorker

\* searchNodes(q) without options
SearchNodesOp ==
  /\ call = Idle
  /\ \E q \in SearchQueries, cap \in {ImplSearchCap, FactorySearchCap} :
       /\ call' = SearchRequest(q, cap, FALSE, NoFilterArg)
       /\ ret' = SearchNodes(nodes, edges, q, cap, FALSE, NoFilterArg)
  /\ UNCHANGED unqueried

\* searchNodes(q, options)
SearchNodesWithOp ==
  /\ call = Idle
  /\ \E q \in SearchQueries, cap \in {ImplSearchCap, FactorySearchCap}, F \in SearchFilterArgs :
       /\ call' = SearchRequest(q, cap, TRUE, F)
       /\ ret' = SearchNodes(nodes, edges, q, cap, TRUE, F)
  /\ UNCHANGED unqueried

NextSearch ==
  \/ SearchNodesOp
  \/ SearchNodesWithOp
  \/ Respond

SpecSearch == InitSearch /\ [][NextSearch]_vars

(***************************************************************************)
(* The traversal algorithms step by step: run is the state of one          *)
(* execution.  The BFS advances one iteration of its while loop at a time; *)
(* the two recursions advance one edge row, or one return, at a time, with *)
(* the call stack explicit (the innermost frame is the last).              *)
(***************************************************************************)
Top(stack) == stack[Len(stack)]
Pop(stack) == SubSeq(stack, 1, Len(stack) - 1)
ReplaceTop(stack, frame) == [stack EXCEPT ![Len(stack)] = frame]

\* entering build(nodeId, depth): beyond maxDepth it has no rows to go over
TreeFrame(E, dir, nodeId, depth, maxDepth) ==
  [id |-> nodeId, depth |-> depth, children |-> <<>>,
   rows |-> IF BeyondDepth(depth, maxDepth) THEN <<>> ELSE Immediate(E, nodeId, dir)]

\* entering dfs(curr, path): too long a path and the target have no rows to go over
DfsFrame(E, targetId, depthLimit, curr, path) ==
  [id |-> curr,
   rows |-> IF PathTooLong(path, depthLimit) \/ curr = targetId THEN <<>>
            ELSE ImmediateCallees(E, curr)]

\* paths.push([...path]) on entering dfs at the target
DfsFound(targetId, depthLimit, curr, path, paths) ==
  IF ~PathTooLong(path, depthLimit) /\ curr = targetId THEN Append(paths, path) ELSE paths

StartFlat ==
  /\ run.pc = "idle"
  /\ \E dir \in {"callers", "callees"}, id \in QueryIds, d \in DepthArgs :
       run' = [RunIdle EXCEPT !.alg = "flat", !.pc = "loop", !.dir = dir, !.start = id,
                              !.limit = OrDefault(d, DefaultFlatDepth),
                              !.queue = <<[id |-> id, depth |-> 0]>>, !.visited = {id}]
  /\ UNCHANGED untraversed

FlatStep ==
  /\ run.alg = "flat" /\ run.pc = "loop" /\ run.queue # <<>>
  /\ LET st == FlatIteration(edges, run.dir, run.limit,
                             [queue |-> run.queue, visited |-> run.visited, result |-> run.result])
     IN run' = [run EXCEPT !.queue = st.queue, !.visited = st.visited, !.result = st.result]
  /\ UNCHANGED untraversed

FlatReturn ==
  /\ run.alg = "flat" /\ run.pc = "loop" /\ run.queue = <<>>
  /\ run' = [run EXCEPT !.pc = "done"]
  /\ UNCHANGED untraversed

StartTree ==
  /\ run.pc = "idle"
  /\ \E dir \in {"callers", "callees"}, id \in QueryIds, d \in DepthArgs :
       LET maxDepth == OrDefault(d, DefaultTreeDepth)
       IN run' = [RunIdle EXCEPT !.alg = "tree", !.pc = "loop", !.dir = dir, !.start = id,
                                 !.limit = maxDepth, !.visited = {id},
                                 !.stack = <<TreeFrame(edges, dir, id, 0, maxDepth)>>]
  /\ UNCHANGED untraversed

\* one turn of the for loop of the innermost build
TreeRow ==
  /\ run.alg = "tree" /\ run.pc = "loop" /\ Top(run.stack).rows # <<>>
  /\ LET top == Top(run.stack)
         pid == Neighbour(Head(top.rows), run.dir)
         rest == [top EXCEPT !.rows = Tail(top.rows)]
     IN IF pid \in run.visited
        THEN run' = [run EXCEPT !.stack = ReplaceTop(run.stack,
                                   [rest EXCEPT !.children = PushVisited(top.children, pid)])]
        ELSE run' = [run EXCEPT !.visited = MarkVisited(run.visited, pid),
                                !.stack = Append(ReplaceTop(run.stack, rest),
                                                 TreeFrame(edges, run.dir, pid, top.depth + 1, run.limit))]
  /\ UNCHANGED untraversed

\* the innermost build returns its node to the caller's children.push
TreeReturn ==
  /\ run.alg = "tree" /\ run.pc = "loop" /\ Top(run.stack).rows = <<>>
  /\ LET top == Top(run.stack)
         tree == [id |-> top.id, children |-> top.children]
     IN IF Len(run.stack) = 1
        THEN run' = [run EXCEPT !.pc = "done", !.stack = <<>>, !.result = tree]
        ELSE LET caller == run.stack[Len(run.stack) - 1]
             IN run' = [run EXCEPT !.stack = ReplaceTop(Pop(run.stack),
                                     [caller EXCEPT !.children = Append(caller.children, tree)])]
  /\ UNCHANGED untraversed

StartPaths ==
  /\ run.pc = "idle"
  /\ \E s \in QueryIds, t \in QueryIds, l \in DepthArgs :
       LET depthLimit == OrDefault(l, DefaultDepthLimit)
       IN run' = [RunIdle EXCEPT !.alg = "paths", !.pc = "loop", !.start = s, !.target = t,
                                 !.limit = depthLimit, !.path = <<s>>,
                                 !.result = DfsFound(t, depthLimit, s, <<s>>, <<>>),
                                 !.stack = <<DfsFrame(edges, t, depthLimit, s, <<s>>)>>]
  /\ UNCHANGED untraversed

\* one turn of the for loop of the innermost dfs
PathsRow ==
  /\ run.alg = "paths" /\ run.pc = "loop" /\ Top(run.stack).rows # <<>>
  /\ LET top == Top(run.stack)
         nid == Head(top.rows).to
         rest == [top EXCEPT !.rows = Tail(top.rows)]
         path == Append(run.path, nid)
     IN IF OnPath(run.path, nid)
        THEN run' = [run EXCEPT !.stack = ReplaceTop(run.stack, rest)]
        ELSE run' = [run EXCEPT !.path = path,
                                !.result = DfsFound(run.target, run.limit, nid, path, run.result),
                                !.stack = Append(ReplaceTop(run.stack, rest),
                                                 DfsFrame(edges, run.target, run.limit, nid, path))]
  /\ UNCHANGED untraversed

\* the innermost dfs returns; its caller does path.pop()
PathsReturn ==
  /\ run.alg = "paths" /\ run.pc = "loop" /\ Top(run.stack).rows = <<>>
  /\ IF Len(run.stack) = 1
     THEN run' = [run EXCEPT !.pc = "done", !.stack = <<>>]
     ELSE run' = [run EXCEPT !.stack = Pop(run.stack), !.path = Pop(run.path)]
  /\ UNCHANGED untraversed

\* the caller takes the result
RunReset ==
  /\ run.pc = "done"
  /\ run' = RunIdle
  /\ UNCHANGED untraversed

RunStep ==
  \/ FlatStep
  \/ FlatReturn
  \/ TreeRow
  \/ TreeReturn
  \/ PathsRow
  \/ PathsReturn

InitRun ==
  /\ nodes = NodeRows
  /\ edges \in RunEdgeTables
  /\ call = Idle
  /\ ret = <<>>
  /\ run = RunIdle
  /\ build = NotBuilding
  /\ db = ClosedDb
  /\ service = NoService
  /\ worker = NoWorker

NextRun ==
  \/ StartFlat
  \/ StartTree
  \/ StartPaths
  \/ RunStep
  \/ RunReset

\* a started traversal is single-threaded code that keeps running
SpecRun == InitRun /\ [][NextRun]_vars /\ WF_vars(RunStep)

(***************************************************************************)
(* GraphService.  loadProject closes the open project and awaits           *)
(* loadGraphAPI; what follows the await runs when the load has resolved,   *)
(* after whatever the extension did in between.  A connection is the load  *)
(* that opened it.                                                         *)
(***************************************************************************)
ServiceProjects == {"p", "q"}

\* what the service leaves alone
unserved == <<nodes, edges, call, ret, run, build, db, worker>>

\* close(): if (this.db) { this.db.close(); db, api and currentProject = null }
Close(s) ==
  IF s.db # NoConnection
  THEN [s EXCEPT !.open = @ \ {s.db}, !.db = NoConnection, !.api = NoConnection,
                 !.currentProject = "null"]
  ELSE s

InitService ==
  /\ nodes = NodeRows
  /\ edges = <<>>
  /\ call = Idle
  /\ ret = <<>>
  /\ run = RunIdle
  /\ build = NotBuilding
  /\ db = ClosedDb
  /\ service = NoService
  /\ worker = NoWorker

\* loadProject(project) up to its await: this.close(); loadGraphAPI(dbPath)
LoadProject ==
  /\ ~service.disposed
  /\ service.loads < MaxLoads
  /\ \E p \in ServiceProjects :
       service' = [Close(service) EXCEPT
                     !.pending = @ \cup {[load |-> service.loads + 1, project |-> p]},
                     !.loads = @ + 1]
  /\ UNCHANGED unserved

\* loadGraphAPI resolved: the connection is open; api, db and currentProject
\* are assigned
LoadResolves ==
  /\ \E l \in service.pending :
       service' = [service EXCEPT !.pending = @ \ {l}, !.open = @ \cup {l},
                                  !.api = l, !.db = l, !.currentProject = l.project]
  /\ UNCHANGED unserved

\* loadGraphAPI rejected: the error is shown and thrown again
LoadRejects ==
  /\ \E l \in service.pending : service' = [service EXCEPT !.pending = @ \ {l}]
  /\ UNCHANGED unserved

\* close() by a command of the extension
CloseService ==
  /\ ~service.disposed
  /\ service.db # NoConnection
  /\ service' = Close(service)
  /\ UNCHANGED unserved

\* dispose(): this.close(); the emitter is disposed
Dispose ==
  /\ ~service.disposed
  /\ service' = [Close(service) EXCEPT !.disposed = TRUE]
  /\ UNCHANGED unserved

NextService ==
  \/ LoadProject
  \/ LoadResolves
  \/ LoadRejects
  \/ CloseService
  \/ Dispose

SpecService == InitService /\ [][NextService]_vars

(***************************************************************************)
(* AnalysisWorker.  analyze forks the worker script and returns a promise  *)
(* that its three listeners resolve; the worker script answers the start   *)
(* message.  channel holds the messages the child has sent and the host    *)
(* has not received, events the 'error' and 'exit' events not yet          *)
(* delivered.  An exit code is "0", "1" or "null" (ended by a signal).     *)
(***************************************************************************)
\* what the worker leaves alone
unworked == <<nodes, edges, call, ret, run, build, db, service>>

ExitEvent(code) == [event |-> "exit", code |-> code]

ErrorEvent == [event |-> "error", code |-> "null"]

\* resolve(result) of the promise: the first call settles it, later calls do
\* nothing
Resolve(w, result) ==
  IF w.promise = "pending"
  THEN [w EXCEPT !.promise = "resolved", !.result = result, !.resolves = @ + 1]
  ELSE w

\* process.send?.(message) of the worker script
Send(w, message) == [w EXCEPT !.channel = Append(@, message)]

\* what is left of the channel when the child ends: process.send does not
\* wait for the message to be written and process.exit does not wait for it
Undelivered(channel) == {SubSeq(channel, 1, k) : k \in 0..Len(channel)}

\* process.exit(code), or the end of the child by a signal
Exit(w, code, channel) ==
  [w EXCEPT !.child = "exited", !.events = @ \cup {ExitEvent(code)},
            !.channel = channel]

Running(w) == w.child \in {"start", "parse", "build", "save", "caught", "exit"}

InitWorker ==
  /\ nodes = NodeRows
  /\ edges = <<>>
  /\ call = Idle
  /\ ret = <<>>
  /\ run = RunIdle
  /\ build = NotBuilding
  /\ db = ClosedDb
  /\ service = NoService
  /\ worker = NoWorker

\* analyze(rootPath, dbPath, progress): fork, send start, register listeners.
\* A child that cannot be spawned emits 'error'.
Analyze ==
  /\ worker.promise = "none"
  /\ \E spawned \in BOOLEAN :
       worker' = [worker EXCEPT
                    !.promise = "pending",
                    !.handle = TRUE,
                    !.child = IF spawned THEN "start" ELSE "failed",
                    !.events = IF spawned THEN {} ELSE {ErrorEvent}]
  /\ UNCHANGED unworked

\* the handler of 'start': progress, then parseProject
WorkerStart ==
  /\ worker.child = "start"
  /\ worker' = [Send(worker, "progress") EXCEPT !.child = "parse"]
  /\ UNCHANGED unworked

\* await parseProject(rootPath), then two progress messages
WorkerParse ==
  /\ worker.child = "parse"
  /\ \E thrown \in BOOLEAN :
       worker' = IF thrown
                 THEN [worker EXCEPT !.child = "caught"]
                 ELSE [Send(Send(worker, "progress"), "progress") EXCEPT
                         !.child = "build"]
  /\ UNCHANGED unworked

\* buildGraph(ir), then progress
WorkerBuild ==
  /\ worker.child = "build"
  /\ \E thrown \in BOOLEAN :
       worker' = IF thrown
                 THEN [worker EXCEPT !.child = "caught"]
                 ELSE [Send(worker, "progress") EXCEPT !.child = "save"]
  /\ UNCHANGED unworked

\* await saveGraphWasm(graph, dbPath), then complete
WorkerSave ==
  /\ worker.child = "save"
  /\ \E thrown \in BOOLEAN :
       worker' = IF thrown
                 THEN [worker EXCEPT !.child = "caught"]
                 ELSE [Send(worker, "complete") EXCEPT !.child = "exit"]
  /\ UNCHANGED unworked

\* catch (err): error
WorkerCatch ==
  /\ worker.child = "caught"
  /\ worker' = [Send(worker, "error") EXCEPT !.child = "exit"]
  /\ UNCHANGED unworked

\* process.exit(0) after the try statement
WorkerExit ==
  /\ worker.child = "exit"
  /\ \E channel \in Undelivered(worker.channel) :
       worker' = Exit(worker, "0", channel)
  /\ UNCHANGED unworked

\* 'uncaughtException' and 'unhandledRejection': error, process.exit(1)
WorkerUncaught ==
  /\ worker.child \in {"parse", "build", "save"}
  /\ \E channel \in Undelivered(Append(worker.channel, "error")) :
       worker' = Exit(worker, "1", channel)
  /\ UNCHANGED unworked

\* the child is ended from outside the script: by the runtime with a code
\* other than 0, or by a signal
WorkerCrash ==
  /\ Running(worker)
  /\ \E code \in {"1", "null"}, channel \in Undelivered(worker.channel) :
       worker' = Exit(worker, code, channel)
  /\ UNCHANGED unworked

\* the steps of the worker script
WorkerStep ==
  \/ WorkerStart
  \/ WorkerParse
  \/ WorkerBuild
  \/ WorkerSave
  \/ WorkerCatch
  \/ WorkerExit

\* this.process.on('message', ...)
OnMessage ==
  /\ worker.channel # <<>>
  /\ LET msg == Head(worker.channel)
         received == [worker EXCEPT !.channel = Tail(@)]
     IN worker' = CASE msg = "progress" -> received
                    [] msg = "complete" -> Resolve(received, "success")
                    [] msg = "error" -> Resolve(received, "error")
  /\ UNCHANGED unworked

\* this.process.on('error', ...)
OnError ==
  /\ ErrorEvent \in worker.events
  /\ worker' = Resolve([worker EXCEPT !.events = @ \ {ErrorEvent}], "error")
  /\ UNCHANGED unworked

\* this.process.on('exit', ...): resolves if (code !== 0 && code !== null)
OnExit ==
  /\ \E e \in worker.events :
       /\ e.event = "exit"
       /\ LET delivered == [worker EXCEPT !.events = @ \ {e}]
          IN worker' = IF e.code # "0" /\ e.code # "null"
                       THEN Resolve(delivered, "exited")
                       ELSE delivered
  /\ UNCHANGED unworked

\* cancel(): if (this.process) { kill(); this.process = null }; the token is
\* cancelled.  kill() ends a running child by SIGTERM.
Cancel ==
  /\ worker.promise # "none"
  /\ ~worker.cancelled
  /\ LET killed == IF worker.handle /\ Running(worker)
                   THEN Exit(worker, "null", worker.channel)
                   ELSE worker
     IN worker' = [killed EXCEPT !.handle = FALSE, !.cancelled = TRUE]
  /\ UNCHANGED unworked

NextWorker ==
  \/ Analyze
  \/ WorkerStart
  \/ WorkerParse
  \/ WorkerBuild
  \/ WorkerSave
  \/ WorkerCatch
  \/ WorkerExit
  \/ WorkerUncaught
  \/ WorkerCrash
  \/ OnMessage
  \/ OnError
  \/ OnExit
  \/ Cancel

\* the child runs its script and the host's event loop delivers what is
\* pending; nothing obliges a cancel, a crash or an uncaught exception
SpecWorker ==
  /\ InitWorker
  /\ [][NextWorker]_vars
  /\ WF_vars(WorkerStep)
  /\ WF_vars(OnMessage)
  /\ WF_vars(OnError)
  /\ WF_vars(OnExit)

(***************************************************************************)
(* Vocabulary of the properties.                                           *)
(***************************************************************************)
FlatOps == {"transitiveCallersFlat", "transitiveCalleesFlat"}
TreeOps == {"transitiveCallersTree", "transitiveCalleesTree"}
ListOps == FlatOps \cup {"getCallers", "getCallees", "getFunctionsInFile"}
DirOf(op) == IF op \in {"transitiveCallersFlat", "transitiveCallersTree"} THEN "callers" ELSE "callees"

NoDuplicates(s) == \A i, j \in 1..Len(s) : i # j => s[i] # s[j]

\* the node a row starts from when it is followed in direction dir
Origin(row, dir) == IF dir = "callers" THEN row.to ELSE row.from

RECURSIVE ReachWithin(_, _, _, _, _)
\* the nodes reached from the set S by following 1..k rows of the given kinds
ReachWithin(E, dir, kinds, S, k) ==
  IF k = 0 \/ S = {} THEN {}
  ELSE LET step == {Neighbour(r, dir) : r \in {x \in Range(E) : Origin(x, dir) \in S /\ x.type \in kinds}}
       IN step \cup ReachWithin(E, dir, kinds, step, k - 1)

\* a walk never needs more edges than the table has rows
Reachable(E, dir, kinds, start, depth) ==
  ReachWithin(E, dir, kinds, {start}, Min(depth, Len(E)))

RECURSIVE PreOrder(_, _)
RECURSIVE PreOrderAll(_, _)
\* the nodes of a result tree in depth-first order, each as [id, kids, depth]
PreOrder(t, depth) ==
  <<[id |-> t.nodeId, kids |-> Len(t.children), depth |-> depth]>>
    \o PreOrderAll(t.children, depth + 1)

PreOrderAll(ts, depth) ==
  IF ts = <<>> THEN <<>> ELSE PreOrder(Head(ts), depth) \o PreOrderAll(Tail(ts), depth)

TreeIds(t) == {x.id : x \in Range(PreOrder(t, 0))}
NonLeaves(t) == Len(SelectSeq(PreOrder(t, 0), LAMBDA x : x.kids > 0))
Leaves(t) == Len(SelectSeq(PreOrder(t, 0), LAMBDA x : x.kids = 0))

OnlyCallEdges(E) == \A r \in Range(E) : r.type \in CallKinds

(***************************************************************************)
(* C1: the ids transitiveCalleesFlat(v, maxDepth = d) returns are the      *)
(* distinct ids of the tree transitiveCalleesTree(v, maxDepth = d)         *)
(* returns, without v.  Stated for unfiltered requests on graphs that hold *)
(* call and method_call edges only.                                        *)
(***************************************************************************)
C1_FlatEqualsTree ==
  (call.op = "transitiveCalleesFlat" /\ NoFilter(call.opts) /\ OnlyCallEdges(edges))
    => Range(ret) = TreeIds(TransitiveTree(nodes, edges, "callees", call.id, call.opts)) \ {call.id}

(***************************************************************************)
(* C2: an unfiltered flat traversal returns, each once, exactly the nodes  *)
(* other than the start that 1..maxDepth call or method_call edges reach;  *)
(* maxDepth = 0 gives the empty list.                                      *)
(***************************************************************************)
C2_FlatIsCallReachability ==
  (call.op \in FlatOps /\ NoFilter(call.opts))
    => /\ NoDuplicates(ret)
       /\ Range(ret) = Reachable(edges, DirOf(call.op), CallKinds, call.id,
                                 OrDefault(call.opts.maxDepth, DefaultFlatDepth)) \ {call.id}
       /\ call.opts.maxDepth = 0 => ret = <<>>

CallsInto(E, id) == Len(SelectSeq(E, LAMBDA r : r.to = id /\ r.type \in CallKinds))
CallsOutOf(E, id) == Len(SelectSeq(E, LAMBDA r : r.from = id /\ r.type \in CallKinds))

(***************************************************************************)
(* C3: in every entry hotspots returns, `in` is the number of call and     *)
(* method_call edges into the node, `out` the number out of it, and score  *)
(* is in * out.                                                            *)
(***************************************************************************)
C3_HotspotCounts ==
  call.op = "hotspots"
    => \A i \in 1..Len(ret) :
         /\ ret[i].in = CallsInto(edges, ret[i].nodeId)
         /\ ret[i].out = CallsOutOf(edges, ret[i].nodeId)
         /\ ret[i].score = ret[i].in * ret[i].out

TrueScore(E, id) == CallsInto(E, id) * CallsOutOf(E, id)
\* x ranks before y: higher score, or equal score and smaller id
RanksBefore(E, x, y) ==
  \/ TrueScore(E, x) > TrueScore(E, y)
  \/ TrueScore(E, x) = TrueScore(E, y) /\ IdRank(x) < IdRank(y)

HotspotCandidates(N, E, opts) ==
  {id \in NodeIds : /\ FilterNode(NodeStoreGet(N, id), opts) # Null
                    /\ CallsInto(E, id) + CallsOutOf(E, id) > 0}

(***************************************************************************)
(* C4: hotspots(top = N) returns the N best nodes among those that pass    *)
(* the type filter (all of them when there are fewer), ordered by score    *)
(* descending and, for equal scores, by node id ascending.  A node's score *)
(* is taken over its call and method_call edges; a node counts as a        *)
(* candidate when it has such an edge.                                     *)
(***************************************************************************)
C4_HotspotTopN ==
  call.op = "hotspots"
    => LET cand == HotspotCandidates(nodes, edges, call.opts)
           n == Min(OrDefault(call.opts.top, DefaultTop), Cardinality(cand))
       IN /\ Len(ret) = n
          /\ \A i \in 1..Len(ret) : ret[i].nodeId \in cand
          /\ \A i, j \in 1..Len(ret) : i < j => RanksBefore(edges, ret[i].nodeId, ret[j].nodeId)
          /\ \A i \in 1..Len(ret) : \A x \in cand \ {ret[k].nodeId : k \in 1..Len(ret)} :
               RanksBefore(edges, ret[i].nodeId, x)

HasEdge(E, x, y) == \E r \in Range(E) : r.from = x /\ r.to = y

PathSound(E, s, t, limit, path) ==
  /\ Len(path) >= 1
  /\ path[1] = s
  /\ path[Len(path)] = t
  /\ NoDuplicates(path)
  /\ \A i \in 1..(Len(path) - 1) : HasEdge(E, path[i], path[i + 1])
  /\ Len(path) - 1 <= limit

(***************************************************************************)
(* C5: every path allCallChains(s, t, depthLimit = L) returns starts with  *)
(* s, ends with t, repeats no node, follows an edge row between each two   *)
(* consecutive nodes, and has at most L edges.                             *)
(***************************************************************************)
C5_PathsSound ==
  call.op = "allCallChains"
    => \A i \in 1..Len(ret) :
         PathSound(edges, call.id, call.target,
                   OrDefault(call.opts.depthLimit, DefaultDepthLimit), ret[i])

\* two chains are returned, one of them over three or more nodes
C5_Witness ==
  /\ call.op = "allCallChains"
  /\ Len(ret) >= 2
  /\ \E i \in 1..Len(ret) : Len(ret[i]) >= 3

\* a chain with an explicit depthLimit that goes over an edge
C5_WitnessLimit ==
  /\ call.op = "allCallChains"
  /\ call.opts.depthLimit # Undefined
  /\ \E i \in 1..Len(ret) : Len(ret[i]) >= 2

RECURSIVE SimplePathsFrom(_, _, _, _)
\* the simple paths that extend path to t using at most `limit` edges in all
SimplePathsFrom(E, t, limit, path) ==
  IF path[Len(path)] = t THEN {path}
  ELSE IF Len(path) - 1 >= limit THEN {}
  ELSE UNION {SimplePathsFrom(E, t, limit, Append(path, r.to)) :
                r \in {x \in Range(E) : x.from = path[Len(path)] /\ ~Includes(path, x.to)}}

SimplePaths(E, s, t, limit) == SimplePathsFrom(E, t, Min(limit, Len(E)), <<s>>)

(***************************************************************************)
(* C6: allCallChains(s, t, depthLimit = L, maxPaths = M) returns           *)
(* min(M, N) paths, N being the number of simple paths from s to t of at   *)
(* most L edges, and no path twice; so a direct edge s -> t is returned    *)
(* for every L >= 1.                                                       *)
(***************************************************************************)
C6_PathCount ==
  (call.op = "allCallChains" /\ call.id # call.target)
    => /\ NoDuplicates(ret)
       /\ Len(ret) = Min(OrDefault(call.opts.maxPaths, DefaultMaxPaths),
                         Cardinality(SimplePaths(edges, call.id, call.target,
                                                 OrDefault(call.opts.depthLimit, DefaultDepthLimit))))

(***************************************************************************)
(* C7: in a tree returned by transitiveCallersTree / transitiveCalleesTree *)
(* with maxDepth = d, an id has children at most at its first occurrence   *)
(* in depth-first order, no node at depth d or deeper has children, and    *)
(* for d = 0 the tree is the root alone.                                   *)
(***************************************************************************)
C7_TreeShape ==
  call.op \in TreeOps
    => LET po == PreOrder(ret, 0)
           d == call.opts.maxDepth
       IN /\ ret.nodeId = call.id
          /\ \A i, j \in 1..Len(po) : (i < j /\ po[i].id = po[j].id) => po[j].kids = 0
          /\ d # Undefined => \A i \in 1..Len(po) : po[i].depth >= d => po[i].kids = 0
          /\ d = 0 => ret = [nodeId |-> call.id, children |-> <<>>]

\* an id occurs twice, first with children, in a tree cut at an explicit depth
\* below which the graph goes on
C7_Witness ==
  /\ call.op \in TreeOps
  /\ call.opts.maxDepth \in 1..MaxDepthArg
  /\ LET po == PreOrder(ret, 0)
     IN /\ \E i, j \in 2..Len(po) : i < j /\ po[i].id = po[j].id /\ po[i].kids > 0
        /\ \E i \in 1..Len(po) :
             /\ po[i].depth = call.opts.maxDepth
             /\ Immediate(edges, po[i].id, DirOf(call.op)) # <<>>

\* the root-only tree of maxDepth = 0 over a start node that has neighbours
C7_WitnessRootOnly ==
  /\ call.op \in TreeOps
  /\ call.opts.maxDepth = 0
  /\ Immediate(edges, call.id, DirOf(call.op)) # <<>>

\* the rows out of x are one call row to y, those out of y one call row to x
TwoCycle(E, x, y) ==
  /\ x # y
  /\ \E k \in CallKinds : ImmediateCallees(E, x) = <<Edge(x, y, k)>>
  /\ \E k \in CallKinds : ImmediateCallees(E, y) = <<Edge(y, x, k)>>

TwoCycleRequest ==
  /\ call.op = "transitiveCalleesTree"
  /\ NoFilter(call.opts)
  /\ call.opts.maxDepth = Undefined \/ call.opts.maxDepth >= 2
  /\ \E y \in NodeIds : TwoCycle(edges, call.id, y)

(***************************************************************************)
(* C8: when the only edges out of a and b are a -> b and b -> a, the       *)
(* unfiltered tree transitiveCalleesTree(a) with maxDepth absent or at     *)
(* least 2 is a over b over a leaf a: two non-leaf nodes and one leaf, the *)
(* back-edge b -> a being kept as a leaf that is not expanded.             *)
(***************************************************************************)
C8_TwoCycleTree ==
  TwoCycleRequest
    => \E y \in NodeIds :
         /\ TwoCycle(edges, call.id, y)
         /\ ret = [nodeId |-> call.id,
                   children |-> <<[nodeId |-> y,
                                   children |-> <<[nodeId |-> call.id, children |-> <<>>]>>]>>]
         /\ NonLeaves(ret) = 2
         /\ Leaves(ret) = 1

C8_Witness == TwoCycleRequest /\ call.opts.maxDepth = Undefined

\* C8 as first stated: one non-leaf node and one leaf, the back-edge giving
\* no further tree node
C8_Original ==
  (TwoCycleRequest /\ call.opts.maxDepth = Undefined)
    => NonLeaves(ret) = 1 /\ Leaves(ret) = 1

(***************************************************************************)
(* C9: on every stored graph, with self-loops and cycles, every started    *)
(* flat traversal, tree traversal and path search comes to its return.     *)
(***************************************************************************)
C9_Terminates == (run.pc = "loop") ~> (run.pc = "done")

\* the start node of a finished traversal lies on a cycle
OnCycle(E, id) == id \in Reachable(E, "callees", {"call", "method_call", "contains"}, id, Len(E))

C9_Witness ==
  /\ run.pc = "done"
  /\ run.alg = "tree"
  /\ OnCycle(edges, run.start)
  /\ ~HasEdge(edges, run.start, run.start)

\* the step-by-step executions return what the operators compute
RunAgrees ==
  run.pc = "done"
    => CASE run.alg = "flat" -> run.result = TransitiveFlatAlg(edges, run.dir, run.start, run.limit)
         [] run.alg = "tree" -> run.result = TransitiveTreeAlg(edges, run.dir, run.start, run.limit)
         [] run.alg = "paths" -> run.result = AllPathsBetween(edges, run.start, run.target, run.limit)


(***************************************************************************)
(* C10: a query for a node id that is not in the store returns an empty    *)
(* result (null for getNode, a tree without children for the tree          *)
(* traversals); for allCallChains a missing start or target is enough.     *)
(***************************************************************************)
C10_MissingNodeEmpty ==
  /\ (call.op \in ListOps /\ call.id = MissingId) => ret = <<>>
  /\ (call.op \in TreeOps /\ call.id = MissingId) => ret.children = <<>>
  /\ (call.op = "getNode" /\ call.id = MissingId) => ret = Null
  /\ (call.op = "allCallChains" /\ MissingId \in {call.id, call.target}) => ret = <<>>

\* the type filter as stated: not excluded and, where includeTypes is given, included
Passes(id, opts) ==
  LET type == NodeStoreGet(nodes, id).type
  IN /\ ~(opts.excludeTypes.given /\ type \in opts.excludeTypes.types)
     /\ opts.includeTypes.given => type \in opts.includeTypes.types

\* the request's options without the type filter
Unfiltered(opts) == [opts EXCEPT !.includeTypes = NoTypes, !.excludeTypes = NoTypes]

\* what the request of the current call returns without the type filter
UnfilteredResult ==
  CASE call.op \in FlatOps ->
         TransitiveFlat(nodes, edges, DirOf(call.op), call.id, Unfiltered(call.opts))
    [] call.op \in TreeOps ->
         TransitiveTree(nodes, edges, DirOf(call.op), call.id, Unfiltered(call.opts))
    [] call.op = "getCallers" -> GetCallers(nodes, edges, call.id, Unfiltered(call.opts))
    [] call.op = "getCallees" -> GetCallees(nodes, edges, call.id, Unfiltered(call.opts))
    [] call.op = "getFunctionsInFile" ->
         GetFunctionsInFile(nodes, edges, call.id, Unfiltered(call.opts))

RECURSIVE Branches(_, _)
\* the id sequences that lead from the root of a result tree to each of its nodes
Branches(t, prefix) ==
  LET here == Append(prefix, t.nodeId)
  IN {here} \cup UNION {Branches(c, here) : c \in Range(t.children)}

\* the branches all of whose nodes pass
PassingBranches(t, opts) ==
  {p \in Branches(t, <<>>) : \A i \in 1..Len(p) : Passes(p[i], opts)}

FlatPart ==
  call.op \in ListOps
    => ret = SelectSeq(UnfilteredResult, LAMBDA id : Passes(id, call.opts))

(***************************************************************************)
(* C11: a node passes the type filter exactly when its type is not         *)
(* excluded and, where includeTypes is given, is included.  Flat results   *)
(* hold exactly the passing nodes of the unfiltered result, in its order.  *)
(* A tree whose root passes holds exactly the branches of the unfiltered   *)
(* tree all of whose nodes pass (a non-passing node goes with its whole    *)
(* subtree); a root that does not pass is kept, alone, with no children.   *)
(***************************************************************************)
C11_TypeFilter ==
  /\ FlatPart
  /\ call.op \in TreeOps
       => IF call.id # MissingId /\ Passes(call.id, call.opts)
          THEN Branches(ret, <<>>) = PassingBranches(UnfilteredResult, call.opts)
          ELSE ret = [nodeId |-> call.id, children |-> <<>>]

\* a tree under includeTypes and excludeTypes together, whose unfiltered form
\* has a non-passing node with a passing node below it
C11_Witness ==
  /\ call.op \in TreeOps
  /\ call.opts.includeTypes.given /\ call.opts.excludeTypes.given
  /\ Passes(call.id, call.opts)
  /\ \E p \in Branches(UnfilteredResult, <<>>) :
       Len(p) >= 3 /\ ~Passes(p[2], call.opts) /\ Passes(p[3], call.opts)

\* C11 as first stated: every non-passing node is removed from the tree, the
\* root as well
C11_Original ==
  /\ FlatPart
  /\ (call.op \in TreeOps /\ call.id # MissingId)
       => /\ \A p \in Branches(ret, <<>>) : \A i \in 1..Len(p) : Passes(p[i], call.opts)
          /\ Branches(ret, <<>>) = PassingBranches(UnfilteredResult, call.opts)

\* the nodes at the other end of the call and method_call rows at id
CallNeighbours(E, id, dir) ==
  {Neighbour(r, dir) : r \in {x \in Range(E) : Origin(x, dir) = id /\ x.type \in CallKinds}}

(***************************************************************************)
(* C12: getCallers(id) returns, each once, exactly the passing nodes that  *)
(* are the source of a call or method_call edge into id, and               *)
(* getCallees(id) those that are the target of such an edge out of id; a   *)
(* neighbour over a contains edge alone is not returned.                   *)
(***************************************************************************)
C12_DirectNeighbours ==
  call.op \in {"getCallers", "getCallees"}
    => LET dir == IF call.op = "getCallers" THEN "callers" ELSE "callees"
       IN /\ NoDuplicates(ret)
          /\ Range(ret) = {n \in CallNeighbours(edges, call.id, dir) : Passes(n, call.opts)}

(***************************************************************************)
(* Properties of the built graph.                                          *)
(***************************************************************************)
Built == build.phase = "graph"

\* the edges of a graph as a set of positions
EdgeIndexes(g) == 1..Len(g.edges)
NodeIndexes(g) == 1..Len(g.nodes)

\* the positions of the contains edges that reach a node
ContainsInto(g, id) ==
  {i \in EdgeIndexes(g) : g.edges[i].type = "contains" /\ g.edges[i].to = id}

\* the container the IR names for an entity: the file of a class or a
\* function, the class of a method
OwnerId(ir, n) ==
  IF n.type = "method"
  THEN ir.methods[CHOOSE i \in 1..Len(ir.methods) : ir.methods[i].id = n.id].classId
  ELSE IF n.type = "class"
  THEN FileIdOf(ir.classes[CHOOSE i \in 1..Len(ir.classes) : ir.classes[i].id = n.id].file)
  ELSE FileIdOf(ir.functions[CHOOSE i \in 1..Len(ir.functions) : ir.functions[i].id = n.id].file)

(***************************************************************************)
(* C13: in the graph buildGraph makes of a parsed project, every class,    *)
(* method and function node is the target of exactly one contains edge,    *)
(* which comes from its file (class, function) or its class (method).      *)
(***************************************************************************)
C13_OneContainer ==
  Built =>
    \A i \in NodeIndexes(build.graph) :
      LET n == build.graph.nodes[i]
      IN n.type \in {"class", "method", "function"} =>
           /\ Cardinality(ContainsInto(build.graph, n.id)) = 1
           /\ \A e \in ContainsInto(build.graph, n.id) :
                build.graph.edges[e].from = OwnerId(build.ir, n)

\* a built graph with a class, a method and two functions, one of them met
\* only through the call inside it
C13_Witness ==
  /\ Built
  /\ {"class", "method", "function"}
       \subseteq {build.graph.nodes[i].type : i \in NodeIndexes(build.graph)}
  /\ HasNode(build.graph, CallbackId)
  /\ HasNode(build.graph, GId)
  /\ C13_OneContainer

\* the positions of the call and method_call edges
CallEdgeIndexes(g) == {i \in EdgeIndexes(g) : g.edges[i].type \in CallKinds}

(***************************************************************************)
(* C14: in every graph the build makes (extractor, resolver, buildGraph),  *)
(* the source of each call or method_call edge is a file, function or      *)
(* method node, never a placeholder, external or class node.               *)
(***************************************************************************)
C14_CallSources ==
  Built =>
    \A i \in CallEdgeIndexes(build.graph) :
      NodeOf(build.graph, build.graph.edges[i].from).type \in {"file", "function", "method"}

(***************************************************************************)
(* C16: in every built graph each method_call edge either carries          *)
(* resolved = true and targets a method or function node, or carries       *)
(* resolved = false and targets a placeholder node whose metadata holds    *)
(* both receiver and method.                                               *)
(***************************************************************************)
C16_MethodCallStates ==
  Built =>
    \A i \in EdgeIndexes(build.graph) :
      LET e == build.graph.edges[i]
          target == NodeOf(build.graph, e.to)
      IN e.type = "method_call" =>
           \/ /\ e.meta.resolved = "true"
              /\ target.type \in {"method", "function"}
           \/ /\ e.meta.resolved = "false"
              /\ target.type = "placeholder"
              /\ target.meta.receiver # Absent
              /\ target.meta.method # Absent

(***************************************************************************)
(* C17: in every built graph the placeholder node an external edge points  *)
(* to carries external = true and the module name of that call, whatever   *)
(* other calls refer to the same placeholder.                              *)
(***************************************************************************)
C17_ExternalPlaceholder ==
  Built =>
    \A i \in EdgeIndexes(build.graph) :
      LET e == build.graph.edges[i]
          target == NodeOf(build.graph, e.to)
      IN e.meta.external = "true" =>
           /\ target.type = "placeholder"
           /\ target.meta.external = "true"
           /\ target.meta.moduleName = e.meta.moduleName

(***************************************************************************)
(* Properties of the store.                                                *)
(***************************************************************************)
\* no two elements of a sequence agree under a key
Injective(seq, Key(_)) ==
  \A i, j \in 1..Len(seq) : Key(seq[i]) = Key(seq[j]) => i = j

NodeIdOf(n) == n.id
EdgeTripleOf(e) == <<e.from, e.to, e.type>>
RowTripleOf(row) == <<row.from_id, row.to_id, row.type>>

\* two calls of the IR that become the same edge
SameEdgeTwice(ir) ==
  \E i, j \in 1..Len(ir.calls) :
    /\ i < j
    /\ ir.calls[i].from = ir.calls[j].from
    /\ ir.calls[i].to = ir.calls[j].to
    /\ ir.calls[i].type = ir.calls[j].type

Elements(seq) == {seq[i] : i \in 1..Len(seq)}

\* a save ended with COMMIT and the store was read back since
SavedAndLoaded == db.outcome = "saved" /\ db.loaded.given

\* a node or edge as it reads back: a missing meta is null
WithNullMeta(x) == [x EXCEPT !.meta = IF @.kind = "object" THEN @ ELSE NullMeta]

NodeIdsOf(g) == {n.id : n \in Elements(g.nodes)}
TriplesOf(g) == {EdgeTripleOf(e) : e \in Elements(g.edges)}

\* the rows saveGraph writes for a graph
RowsOf(g) ==
  [nodes |-> {NodeRowOf(n) : n \in Elements(g.nodes)},
   edges |-> {EdgeRowOf(e) : e \in Elements(g.edges)}]

\* the rows the store holds
StoredRows == [nodes |-> Elements(db.nodes), edges |-> Elements(db.edges)]

(***************************************************************************)
(* C19: after a successful saveGraph(G) the store holds exactly the nodes  *)
(* and edges of G, whatever it held before, after the first save of G as   *)
(* after the second.                                                       *)
(***************************************************************************)
C19_SaveReplaces ==
  db.outcome = "saved" =>
    /\ StoredRows = RowsOf(build.graph)
    /\ {row.id : row \in Elements(db.nodes)} = NodeIdsOf(build.graph)
    /\ {RowTripleOf(row) : row \in Elements(db.edges)} = TriplesOf(build.graph)

\* the second save of a graph, the first of which replaced a stale node
\* and a stale edge
C19_Witness ==
  /\ db.outcome = "saved"
  /\ db.saves = 2
  /\ db.upserts = 2
  /\ db.before = [nodes |-> db.nodes, edges |-> db.edges]
  /\ "file:old.js" \notin NodeIdsOf(build.graph)

\* a save over a store that held a stale node and a stale edge
C19_WitnessStale ==
  /\ db.outcome = "saved"
  /\ Len(db.before.nodes) = 1
  /\ Len(db.before.edges) = 1
  /\ db.before.nodes[1].id \notin NodeIdsOf(build.graph)

\* the last save ended with an upsert left to do
Unfinished == db.outcome # "none" /\ db.j <= UpsertCount(build.graph)

(***************************************************************************)
(* C20: on the native back-end a save in which an upsert fails is rolled   *)
(* back, so that the store afterwards holds none of the nodes and edges    *)
(* that call wrote, and the failure is thrown to the caller.               *)
(***************************************************************************)
C20_RollsBack ==
  /\ Unfinished => db.outcome = "thrown"
  /\ db.outcome = "thrown" =>
       /\ {row.id : row \in Elements(db.nodes)} \cap NodeIdsOf(build.graph) = {}
       /\ {RowTripleOf(row) : row \in Elements(db.edges)} \cap TriplesOf(build.graph) = {}
       /\ Tables(db) = db.begun

\* a save that failed at an edge, after every node and an edge were written
C20_Witness ==
  /\ db.outcome = "thrown"
  /\ db.j > Len(build.graph.nodes) + 1
  /\ db.before # NoTables

(***************************************************************************)
(* Properties of the analysis of a project.                                *)
(***************************************************************************)
Parsed == build.phase = "ir"

\* the call of a.js as the IR holds it
EmittedCall == build.ir.calls[1]

\* two method declarations of one class that are given the same id
Collides(p) ==
  \E k \in 1..Len(p.classes) :
    LET declared == DeclaredMethods(p, p.classes[k])
    IN \E i, j \in 1..Len(declared) : i < j /\ declared[i].id = declared[j].id

(***************************************************************************)
(* C21: a build in which two distinct entities would get the same id fails *)
(* with an identifier-collision error: no IR comes out of a project in     *)
(* which two declarations collide.                                         *)
(***************************************************************************)
C21_CollisionFails == Parsed => ~Collides(build.source)

\* the source the callee name of the call is imported from, if any
ImportSourceOfCallee(p) ==
  LET importInfo == Lookup(ImportsOf(p, CallerFile), "local", p.form.calleeName)
  IN IF importInfo = <<>> THEN Absent ELSE importInfo[1].source

(***************************************************************************)
(* C23: a call whose callee name is imported from a package is emitted     *)
(* with external = true and moduleName = that package and keeps its        *)
(* placeholder target; no later rule binds it to a function of the         *)
(* project.                                                                *)
(***************************************************************************)
C23_ImportRuleWins ==
  Parsed /\ ImportSourceOfCallee(build.source) # Absent
         /\ IsPackageName(ImportSourceOfCallee(build.source)) =>
    /\ EmittedCall.external = "true"
    /\ EmittedCall.moduleName = ImportSourceOfCallee(build.source)
    /\ EmittedCall.to = ProjectPlaceholderIdOf(build.source.form.calleeName)

\* the class whose method m makes the call, if the call stands in a method
EnclosingClass(p) ==
  CASE p.ctx = "A.m" -> "A"
    [] p.ctx = "AB.m" -> "AB"
    [] OTHER -> Absent

(***************************************************************************)
(* C24: the call this.run() made inside a method of class C is resolved    *)
(* against C.run: its target is the method run of the class that encloses  *)
(* the caller.                                                             *)
(***************************************************************************)
C24_ThisResolvesInClass ==
  Parsed /\ build.source.form.type = "method_call" /\ EnclosingClass(build.source) # Absent =>
    /\ EmittedCall.resolved = "true"
    /\ EmittedCall.to = MethodIdOf(EnclosingClass(build.source), "run")

\* the ids of the functions of the project that bear a name
Bearing(p, name) ==
  LET functions == Flatten([i \in 1..Len(ProjectFiles) |-> ParseFile(p, ProjectFiles[i]).functions])
  IN {functions[i].id : i \in {j \in 1..Len(functions) : functions[j].name = name}}

\* neither a method rule, the import rule nor the local rule gave an answer
NoEarlierRule(p) ==
  LET fileData == FileData(p)
      c == ProjectCall(p)
  IN /\ c.calleeName # Absent
     /\ ResolveMethod(fileData, fileData[1], c) = Absent
     /\ ExternalReceiverImport(fileData[1], c) = Absent
     /\ ResolveViaImport(fileData, fileData[1], c) = Absent
     /\ ImportedFromPackage(fileData[1], c) = Absent
     /\ ResolveLocally(fileData[1], c) = Absent

(***************************************************************************)
(* C25: a call that no earlier rule resolved is bound to the function f    *)
(* when f is the only function of the project that bears the callee name,  *)
(* exported or not, and is left unresolved when two or more functions bear *)
(* the name.                                                               *)
(***************************************************************************)
C25_GlobalUniqueName ==
  Parsed /\ NoEarlierRule(build.source) =>
    LET bearing == Bearing(build.source, build.source.form.calleeName)
    IN /\ Cardinality(bearing) = 1 =>
            EmittedCall.resolved = "true" /\ EmittedCall.to \in bearing
       /\ Cardinality(bearing) >= 2 => EmittedCall.resolved = "false"

(***************************************************************************)
(* Properties of searchNodes.                                              *)
(***************************************************************************)
Searched == call.op = "searchNodes"

\* found by a stage after the first, whether or not the first found it too
FoundLater(N, E, row, q) ==
  \/ MetaMatches(row, ToLowerCase(q))
  \/ \E i \in 1..Len(E) :
       E[i].type \in CallKinds /\ EdgeMatches(E[i], ToLowerCase(q)) /\ E[i].to = row.id

C22_WitnessCap ==
  /\ Searched
  /\ Len(SearchAccumulate(nodes, edges, call.q)) > call.cap
  /\ Len(ret) = call.cap

\* the stored nodes that match the query at some stage and pass the filter
MatchingAndPassing(N, E, q, opts) ==
  {i \in 1..Len(N) :
     /\ IdOrLabelLike(N[i], q) \/ FoundLater(N, E, N[i], q)
     /\ FilterNode(N[i], opts) # Null}

(***************************************************************************)
(* C28: called with includeTypes or excludeTypes, searchNodes returns      *)
(* min(cap, k) nodes, k being the number of stored nodes that match the    *)
(* query and pass the type filter.                                         *)
(***************************************************************************)
C28_FilteredCount ==
  Searched /\ call.hasOptions /\ ~NoFilter(call.opts) =>
    Len(ret) = Min(call.cap, Cardinality(MatchingAndPassing(nodes, edges, call.q, call.opts)))

(***************************************************************************)
(* Properties of the write workflows.                                      *)
(***************************************************************************)
\* no save is between its open and its return
Returned == db.pc = "closed"

(***************************************************************************)
(* C26: every connection a write workflow opened is closed when the call   *)
(* has returned or thrown: after a success, after a schema reset that      *)
(* threw, after an upsert that threw.                                      *)
(***************************************************************************)
C26_ConnectionsClosed == Returned => db.connections = 0

\* the store held exactly the rows of the saved graph when the last save began
HeldSavedGraph ==
  /\ db.saves = 2
  /\ [nodes |-> Elements(db.before.nodes), edges |-> Elements(db.before.edges)]
       = RowsOf(build.graph)

(***************************************************************************)
(* C27: when the store holds a saved graph and a later save on the same    *)
(* database fails at an upsert, the store still holds exactly that graph.  *)
(***************************************************************************)
C27_FailedSaveKeeps ==
  Returned /\ db.outcome = "thrown" /\ HeldSavedGraph =>
    Tables(db) = db.before

(***************************************************************************)
(* Properties of GraphService.                                             *)
(***************************************************************************)
(***************************************************************************)
(* C29: under any interleaving of loadProject, close and dispose, loads    *)
(* that overlap included, at most one connection is open at a time, every  *)
(* open connection is the one the service holds, so that a later           *)
(* loadProject, close or dispose closes it, and api, db and currentProject *)
(* are all null or all set for the same project.                           *)
(***************************************************************************)
C29_ServiceConnections ==
  /\ Cardinality(service.open) <= 1
  /\ service.open \subseteq {service.db}
  /\ \/ /\ service.db = NoConnection
        /\ service.api = NoConnection
        /\ service.currentProject = "null"
     \/ /\ service.db # NoConnection
        /\ service.api = service.db
        /\ service.currentProject = service.db.project

(***************************************************************************)
(* Properties of AnalysisWorker.                                           *)
(***************************************************************************)
(***************************************************************************)
(* C30: the promise analyze returned eventually resolves, whatever the     *)
(* worker does: it sends complete or error, it fails to start, it exits    *)
(* with any code before a result message is received, or cancel() kills    *)
(* it.                                                                     *)
(***************************************************************************)
C30_PromiseResolves ==
  (worker.promise = "pending") ~> (worker.promise = "resolved")
====
